---------------------------- MODULE Spec2Model ----------------------------
(***************************************************************************)
(* Record linkage and merge engine of the unified policy-papers dataset:   *)
(* data_loader (normalize_doi, normalize_title, standardize_dataframe),    *)
(* matcher (match_by_doi, match_by_title, create_match_registry,           *)
(* match_papers) and merger (resolve_conflicts, merge_papers), driven in   *)
(* the order of process_policy.                                            *)
(*                                                                         *)
(* Python strings are sequences of one-character strings, so that          *)
(* lower(), strip(), startswith(), len() and the regular-expression        *)
(* substitution are computed character by character.                       *)
(***************************************************************************)
EXTENDS Integers, Sequences, FiniteSets, TLC

VARIABLES
    \* process_policy of unified_dataset_main: the frames of load_all_sources,
    \* the match registry, the unified dataset, the step reached and
    \* result['error'].
    dataframes, registry, unified, pc, error,
    \* Its source_metrics, coverage_analysis and report_paths.
    source_metrics, coverage_analysis, report_paths,
    \* normalize_doi: its argument and what it returned.
    doi_cell, doi_result,
    \* main of unified_dataset_main: the topics to process, the files of
    \* each, the results so far, where main is and what it died of.
    policy_abbrs, topic_files, all_results, main_pc, main_error,
    \* complement_abstracts: the frame of its caller, the frame it works on
    \* and returns, whether the two are one object, the step it is in, the
    \* rows its loop has yet to fetch, the two lists its second step fills,
    \* and PDF_EXTRACTION_AVAILABLE.
    df_loaded, df_complemented, same_frame, ca_pc, to_fetch,
    pdf_urls_to_process, js_urls_to_process, pdf_extraction_available,
    \* search_semantic_scholar: its parameters, its locals offset, retry and
    \* len(all_results), the requests sent for the page at `offset`, where
    \* the call is and the length of the list it returned.
    limit, max_results, max_retries, offset, retry, results_so_far,
    requests_sent, search_pc, returned,
    \* process_policy of complement_abstracts_main: the search terms, the
    \* filtered frame and its statistics, the files saved, where the call is
    \* and what it raised.
    search_terms, df_filtered, filter_stats, saved_files, cp_pc, cp_error

policyVars ==
    <<dataframes, registry, unified, pc, error,
      source_metrics, coverage_analysis, report_paths>>

doiVars == <<doi_cell, doi_result>>

mainVars == <<policy_abbrs, topic_files, all_results, main_pc, main_error>>

complementVars ==
    <<df_loaded, df_complemented, same_frame, ca_pc, to_fetch,
      pdf_urls_to_process, js_urls_to_process, pdf_extraction_available>>

searchVars ==
    <<limit, max_results, max_retries, offset, retry, results_so_far,
      requests_sent, search_pc, returned>>

relevanceVars ==
    <<search_terms, df_filtered, filter_stats, saved_files, cp_pc, cp_error>>

vars == <<policyVars, doiVars, mainVars, complementVars, searchVars, relevanceVars>>

-----------------------------------------------------------------------------
(* Bounds of the model. *)

\* Largest number of rows, over the three source collections together.
MaxRecords == 3

\* The most topics main is given.
MaxPolicies == 3

\* The most rows of the frame complement_abstracts is given.
MaxPapers == 2

-----------------------------------------------------------------------------
(* Python values. *)

\* None / a missing string cell of a DataFrame.
None == <<"None">>

\* A missing numeric cell (None or NaN); present numeric values are >= 0.
NoneInt == -1

\* bool(s) of an optional string: None and "" are falsy.
Truthy(s) == s # None /\ s # <<>>

\* `x and pd.notna(x)` of an optional number: None, NaN and 0 are falsy.
TruthyInt(n) == n # NoneInt /\ n # 0

\* The dict key order of load_all_sources.
Sources == <<"openalex", "semantic_scholar", "nber">>

SourceSet == {Sources[i] : i \in 1..Len(Sources)}

UpperCase == <<"A", "B", "C", "D", "E", "F", "G", "H", "I", "J", "K", "L", "M",
               "N", "O", "P", "Q", "R", "S", "T", "U", "V", "W", "X", "Y", "Z">>

LowerCase == <<"a", "b", "c", "d", "e", "f", "g", "h", "i", "j", "k", "l", "m",
               "n", "o", "p", "q", "r", "s", "t", "u", "v", "w", "x", "y", "z">>

Digits == <<"0", "1", "2", "3", "4", "5", "6", "7", "8", "9">>

Range(s) == {s[i] : i \in 1..Len(s)}

\* str.lower() of one character.
LowerChar(c) ==
    IF c \in Range(UpperCase)
    THEN LowerCase[CHOOSE i \in 1..Len(UpperCase) : UpperCase[i] = c]
    ELSE c

\* str.lower()
Lower(s) == [i \in 1..Len(s) |-> LowerChar(s[i])]

\* \s of the regular expression, and the characters str.strip()/split() drop.
IsSpace(c) == c \in {" ", "\t", "\n"}

\* \w of the regular expression: letters, digits and the underscore.
IsWord(c) == c \in Range(UpperCase) \cup Range(LowerCase) \cup Range(Digits) \cup {"_"}

RECURSIVE LStrip(_)
LStrip(s) == IF s # <<>> /\ IsSpace(Head(s)) THEN LStrip(Tail(s)) ELSE s

RECURSIVE RStrip(_)
RStrip(s) ==
    IF s # <<>> /\ IsSpace(s[Len(s)]) THEN RStrip(SubSeq(s, 1, Len(s) - 1)) ELSE s

\* str.strip()
Strip(s) == RStrip(LStrip(s))

\* str.startswith(p)
StartsWith(s, p) == Len(s) >= Len(p) /\ SubSeq(s, 1, Len(p)) = p

\* s[n:]
DropPrefix(s, n) == SubSeq(s, n + 1, Len(s))

-----------------------------------------------------------------------------
(* data_loader.normalize_doi *)

\* The list `prefixes`, in its order.
DoiPrefixes == <<
    <<"h", "t", "t", "p", "s", ":", "/", "/", "d", "o", "i", ".", "o", "r", "g", "/">>,
    <<"h", "t", "t", "p", ":", "/", "/", "d", "o", "i", ".", "o", "r", "g", "/">>,
    <<"h", "t", "t", "p", "s", ":", "/", "/", "d", "x", ".", "d", "o", "i", ".", "o", "r", "g", "/">>,
    <<"h", "t", "t", "p", ":", "/", "/", "d", "x", ".", "d", "o", "i", ".", "o", "r", "g", "/">>,
    <<"d", "o", "i", ".", "o", "r", "g", "/">>,
    <<"d", "o", "i", ":">> >>

\* The for loop over the prefixes: the first prefix that matches the
\* lowercased string is cut off, and the loop breaks.
RECURSIVE StripDoiPrefix(_, _)
StripDoiPrefix(doi, k) ==
    IF k > Len(DoiPrefixes) THEN doi
    ELSE IF StartsWith(Lower(doi), Lower(DoiPrefixes[k]))
         THEN DropPrefix(doi, Len(DoiPrefixes[k]))
         ELSE StripDoiPrefix(doi, k + 1)

normalize_doi(doi) ==
    IF ~Truthy(doi) THEN None
    ELSE LET stripped == Strip(doi)
         IN IF stripped = <<>> THEN None
            ELSE LET result == Strip(Lower(StripDoiPrefix(stripped, 1)))
                 IN IF result # <<>> /\ StartsWith(result, <<"1", "0", ".">>)
                    THEN result
                    ELSE None

-----------------------------------------------------------------------------
(* data_loader.normalize_title *)

\* re.sub(r'[^\w\s]', '', title)
RECURSIVE RemovePunctuation(_)
RemovePunctuation(s) ==
    IF s = <<>> THEN <<>>
    ELSE IF IsWord(Head(s)) \/ IsSpace(Head(s))
         THEN <<Head(s)>> \o RemovePunctuation(Tail(s))
         ELSE RemovePunctuation(Tail(s))

\* ' '.join(title.split()): runs of whitespace become one space, and the
\* leading and trailing ones go.
RECURSIVE CollapseSpaces(_)
CollapseSpaces(s) ==
    LET t == LStrip(s)
    IN IF t = <<>> THEN <<>>
       ELSE IF Tail(t) = <<>> THEN <<Head(t)>>
       ELSE IF IsSpace(Head(Tail(t)))
            THEN LET rest == CollapseSpaces(Tail(t))
                 IN IF rest = <<>> THEN <<Head(t)>> ELSE <<Head(t), " ">> \o rest
            ELSE <<Head(t)>> \o CollapseSpaces(Tail(t))

normalize_title(title) ==
    IF ~Truthy(title) THEN None
    ELSE LET result == CollapseSpaces(RemovePunctuation(Lower(title)))
         IN IF result # <<>> THEN result ELSE None

-----------------------------------------------------------------------------
(* Rows of the source collections. *)

\* A row as read from a source's file, before standardize_dataframe: every
\* cell missing.  own_id is the cell of the source's own id column
\* (openalex_id, semantic_scholar_id or nber_id).
EmptyRow ==
    [title |-> None, doi |-> None, abstract |-> None, abstract_source |-> None,
     open_access_url |-> None, authors |-> None, author_count |-> NoneInt,
     publication_year |-> NoneInt, publication_date |-> None,
     cited_by_count |-> NoneInt, venue |-> None, source_name |-> None,
     search_term |-> None, own_id |-> None, policy_studied |-> None,
     policy_year |-> NoneInt, policy_abbreviation |-> None,
     policy_category |-> None]

\* standardize_dataframe: the columns doi_normalized and normalized_title are
\* added to every row; a frame read from a file carries a RangeIndex, so the
\* row at position i has the index label i - 1.  The venue column it fills
\* from source_name is read by the merger as `venue or source_name`
\* (ResolveVenue), which gives the same value.
standardize_dataframe(rows) ==
    [i \in 1..Len(rows) |->
        rows[i] @@ [idx |-> i - 1,
                    doi_normalized |-> normalize_doi(rows[i].doi),
                    normalized_title |-> normalize_title(rows[i].title)]]

\* df.index
Index(df) == {df[i].idx : i \in 1..Len(df)}

\* df.loc[idx]
Loc(df, idx) == df[CHOOSE i \in 1..Len(df) : df[i].idx = idx]

-----------------------------------------------------------------------------
(* matcher.match_by_doi, matcher.match_by_title *)

\* defaultdict(list)[key].append(ref): a dict is the sequence of its items in
\* insertion order, which is the order .items() iterates in.
DictAppend(d, key, ref) ==
    IF \E i \in 1..Len(d) : d[i].key = key
    THEN LET i == CHOOSE j \in 1..Len(d) : d[j].key = key
         IN [d EXCEPT ![i].matches = Append(@, ref)]
    ELSE Append(d, [key |-> key, matches |-> <<ref>>])

\* The comprehension at the end of match_by_doi and of match_by_title keeps
\* the keys with len(matches) >= 1.
MinMatches == 1

FilterMatches(d) == SelectSeq(d, LAMBDA e : Len(e.matches) >= MinMatches)

\* DoiScanRows reading the raw doi column in place of doi_normalized.
RECURSIVE DoiScanRowsRaw(_, _, _, _)
DoiScanRowsRaw(d, source, df, i) ==
    IF i > Len(df) THEN d
    ELSE LET doi == df[i].doi
         IN DoiScanRowsRaw(IF Truthy(doi)
                           THEN DictAppend(d, doi, [source |-> source, idx |-> df[i].idx])
                           ELSE d,
                           source, df, i + 1)

\* for idx, row in df.iterrows() of match_by_doi, from row i on.
RECURSIVE DoiScanRows(_, _, _, _)
DoiScanRows(d, source, df, i) ==
    IF i > Len(df) THEN d
    ELSE LET doi == df[i].doi_normalized
         IN DoiScanRows(IF Truthy(doi)
                        THEN DictAppend(d, doi, [source |-> source, idx |-> df[i].idx])
                        ELSE d,
                        source, df, i + 1)

\* for source, df in dataframes.items() of match_by_doi, from source k on.
RECURSIVE DoiScanSources(_, _, _, _)
DoiScanSources(d, order, dfs, k) ==
    IF k > Len(order) THEN d
    ELSE DoiScanSources(DoiScanRows(d, order[k], dfs[order[k]], 1), order, dfs, k + 1)

match_by_doi(order, dfs) == FilterMatches(DoiScanSources(<<>>, order, dfs, 1))

\* `len(title) > 10`, the minimum title length of match_by_title.
MinTitleLength == 10

\* `title and pd.notna(title) and len(title) > 10`
TitleEligible(title) == Truthy(title) /\ Len(title) > MinTitleLength

\* TitleScanRows without its `if idx in matched_indices: continue`.
RECURSIVE TitleScanRowsAll(_, _, _, _, _)
TitleScanRowsAll(d, source, df, matched_indices, i) ==
    IF i > Len(df) THEN d
    ELSE LET title == df[i].normalized_title
         IN TitleScanRowsAll(IF TitleEligible(title)
                             THEN DictAppend(d, title, [source |-> source, idx |-> df[i].idx])
                             ELSE d,
                             source, df, matched_indices, i + 1)

\* for idx, row in df.iterrows() of match_by_title, from row i on.
RECURSIVE TitleScanRows(_, _, _, _, _)
TitleScanRows(d, source, df, matched_indices, i) ==
    IF i > Len(df) THEN d
    ELSE LET title == df[i].normalized_title
         IN TitleScanRows(IF df[i].idx \notin matched_indices /\ TitleEligible(title)
                          THEN DictAppend(d, title, [source |-> source, idx |-> df[i].idx])
                          ELSE d,
                          source, df, matched_indices, i + 1)

\* for source, df in dataframes.items() of match_by_title, from source k on.
RECURSIVE TitleScanSources(_, _, _, _, _)
TitleScanSources(d, order, dfs, already_matched_indices, k) ==
    IF k > Len(order) THEN d
    ELSE TitleScanSources(
            TitleScanRows(d, order[k], dfs[order[k]],
                          already_matched_indices[order[k]], 1),
            order, dfs, already_matched_indices, k + 1)

match_by_title(order, dfs, already_matched_indices) ==
    FilterMatches(TitleScanSources(<<>>, order, dfs, already_matched_indices, 1))

-----------------------------------------------------------------------------
(* matcher.create_match_registry *)

\* The registry row appended for (source, idx).  The doi and the title written
\* by the three steps are the row's own doi_normalized and normalized_title:
\* the key of a DOI group is the doi_normalized of its members, and the key of
\* a title group their normalized_title.
RegistryEntry(unified_id, ref, method, dfs) ==
    [unified_id |-> unified_id,
     source |-> ref.source,
     source_index |-> ref.idx,
     match_method |-> method,
     doi |-> Loc(dfs[ref.source], ref.idx).doi_normalized,
     normalized_title |-> Loc(dfs[ref.source], ref.idx).normalized_title]

\* AssignOne without its `if idx not in assigned_indices[source]` test.
AssignOneUnchecked(acc, ref, method, dfs, per_entry) ==
    [registry_entries |->
         Append(acc.registry_entries,
                RegistryEntry(acc.unified_id, ref, method, dfs)),
     unified_id |-> IF per_entry THEN acc.unified_id + 1 ELSE acc.unified_id,
     assigned_indices |->
         [acc.assigned_indices EXCEPT ![ref.source] = @ \cup {ref.idx}]]

\* `if idx not in assigned_indices[source]:` append the entry and add idx;
\* per_entry says whether unified_id += 1 stands inside the if (the branch of
\* a title held by one source, and step 3) or after the loop.
AssignOne(acc, ref, method, dfs, per_entry) ==
    IF ref.idx \in acc.assigned_indices[ref.source] THEN acc
    ELSE [registry_entries |->
              Append(acc.registry_entries,
                     RegistryEntry(acc.unified_id, ref, method, dfs)),
          unified_id |-> IF per_entry THEN acc.unified_id + 1 ELSE acc.unified_id,
          assigned_indices |->
              [acc.assigned_indices EXCEPT ![ref.source] = @ \cup {ref.idx}]]

\* for source, idx in matches, from match i on.
RECURSIVE AssignMatches(_, _, _, _, _, _)
AssignMatches(acc, matches, i, method, dfs, per_entry) ==
    IF i > Len(matches) THEN acc
    ELSE AssignMatches(AssignOne(acc, matches[i], method, dfs, per_entry),
                       matches, i + 1, method, dfs, per_entry)

\* NextUnifiedId with the increment left out.
NextUnifiedIdKept(acc) == acc

\* unified_id += 1 after the loop over the matches of one key.
NextUnifiedId(acc) == [acc EXCEPT !.unified_id = @ + 1]

\* Step 1, for doi, matches in doi_matches.items(), from item k on.
RECURSIVE DoiStep(_, _, _, _)
DoiStep(acc, doi_matches, k, dfs) ==
    IF k > Len(doi_matches) THEN acc
    ELSE DoiStep(NextUnifiedId(AssignMatches(acc, doi_matches[k].matches, 1,
                                             "doi", dfs, FALSE)),
                 doi_matches, k + 1, dfs)

\* sources_in_match
SourcesInMatch(matches) == {matches[i].source : i \in 1..Len(matches)}

\* TitleGroup with the cross-source test made on the first two matches only.
TitleGroupFirstTwo(acc, matches, dfs) ==
    IF Len(matches) > 1 /\ matches[1].source # matches[2].source
    THEN NextUnifiedId(AssignMatches(acc, matches, 1, "title", dfs, FALSE))
    ELSE AssignMatches(acc, matches, 1, "none", dfs, TRUE)

\* TitleGroup with the two branches exchanged.
TitleGroupSwapped(acc, matches, dfs) ==
    IF Cardinality(SourcesInMatch(matches)) = 1
    THEN NextUnifiedId(AssignMatches(acc, matches, 1, "title", dfs, FALSE))
    ELSE AssignMatches(acc, matches, 1, "none", dfs, TRUE)

\* TitleGroup that takes every shared title for one paper.
TitleGroupAlways(acc, matches, dfs) ==
    NextUnifiedId(AssignMatches(acc, matches, 1, "title", dfs, FALSE))

\* `if len(sources_in_match) > 1` and its else branch, for one title.
TitleGroup(acc, matches, dfs) ==
    IF Cardinality(SourcesInMatch(matches)) > 1
    THEN NextUnifiedId(AssignMatches(acc, matches, 1, "title", dfs, FALSE))
    ELSE AssignMatches(acc, matches, 1, "none", dfs, TRUE)

\* Step 2, for title, matches in title_matches.items(), from item k on.
RECURSIVE TitleStep(_, _, _, _)
TitleStep(acc, title_matches, k, dfs) ==
    IF k > Len(title_matches) THEN acc
    ELSE TitleStep(TitleGroup(acc, title_matches[k].matches, dfs),
                   title_matches, k + 1, dfs)

\* RemainderRows with unified_id += 1 left out of the loop body.
RECURSIVE RemainderRowsShared(_, _, _, _, _)
RemainderRowsShared(acc, source, df, i, dfs) ==
    IF i > Len(df) THEN acc
    ELSE RemainderRowsShared(AssignOne(acc, [source |-> source, idx |-> df[i].idx],
                                       "none", dfs, FALSE),
                             source, df, i + 1, dfs)

\* Step 3, for idx in df.index, from row i on.
RECURSIVE RemainderRows(_, _, _, _, _)
RemainderRows(acc, source, df, i, dfs) ==
    IF i > Len(df) THEN acc
    ELSE RemainderRows(AssignOne(acc, [source |-> source, idx |-> df[i].idx],
                                 "none", dfs, TRUE),
                       source, df, i + 1, dfs)

\* Step 3, for source, df in dataframes.items(), from source k on.
RECURSIVE RemainderStep(_, _, _, _)
RemainderStep(acc, order, dfs, k) ==
    IF k > Len(order) THEN acc
    ELSE RemainderStep(RemainderRows(acc, order[k], dfs[order[k]], 1, dfs),
                       order, dfs, k + 1)

\* order is the key order of the dict `dataframes`, dfs its values.
create_match_registry(order, dfs) ==
    LET start == [registry_entries |-> <<>>,
                  unified_id |-> 0,
                  assigned_indices |-> [s \in SourceSet |-> {}]]
        step1 == DoiStep(start, match_by_doi(order, dfs), 1, dfs)
        step2 == TitleStep(step1,
                           match_by_title(order, dfs, step1.assigned_indices),
                           1, dfs)
        step3 == RemainderStep(step2, order, dfs, 1)
    IN step3.registry_entries

-----------------------------------------------------------------------------
(* Python's order on strings, for sorted() and min(). *)

\* The characters of the model in code-point order.
CodePoints ==
    <<"\t", "\n", " ", "!", "-", ".", "/">> \o Digits \o <<":">> \o UpperCase
        \o <<"_">> \o LowerCase \o <<"|">>

\* ord(c)
Ord(c) == CHOOSE i \in 1..Len(CodePoints) : CodePoints[i] = c

\* a < b on strings
RECURSIVE StrLess(_, _)
StrLess(a, b) ==
    IF b = <<>> THEN FALSE
    ELSE IF a = <<>> THEN TRUE
    ELSE IF Head(a) # Head(b) THEN Ord(Head(a)) < Ord(Head(b))
    ELSE StrLess(Tail(a), Tail(b))

\* min() of a non-empty set of strings
StrMin(S) == CHOOSE a \in S : \A b \in S : a = b \/ StrLess(a, b)

\* sorted() of a set of strings
RECURSIVE Sorted(_)
Sorted(S) == IF S = {} THEN <<>> ELSE <<StrMin(S)>> \o Sorted(S \ {StrMin(S)})

\* sep.join(parts)
RECURSIVE Join(_, _)
Join(sep, parts) ==
    IF parts = <<>> THEN <<>>
    ELSE IF Len(parts) = 1 THEN parts[1]
    ELSE parts[1] \o sep \o Join(sep, Tail(parts))

IntMax(S) == CHOOSE n \in S : \A m \in S : m <= n

IntMin(S) == CHOOSE n \in S : \A m \in S : n <= m

-----------------------------------------------------------------------------
(* Numbers and statistics of pandas and Python. *)

\* round(x, 1) of x = 100 * k / n, held as the count of tenths: the nearest
\* integer to 1000 * k / n, a tie going to the even one.
RoundTenths(k, n) ==
    LET q == (1000 * k) \div n
        r == (1000 * k) % n
    IN IF 2 * r > n \/ (2 * r = n /\ (q % 2) = 1) THEN q + 1 ELSE q

\* round(100 * mask.mean(), 1) and round(100 * mask.sum() / total, 1) of a
\* non-empty frame.
Pct(hits, df) == RoundTenths(Len(hits), Len(df))

\* The values of a numeric column that are not NaN: Series.dropna().
DropNa(df, field) ==
    SelectSeq([i \in 1..Len(df) |-> df[i][field]], LAMBDA n : n # NoneInt)

\* sorted() of a sequence of numbers.
RECURSIVE SortInts(_)
SortInts(values) ==
    IF values = <<>> THEN <<>>
    ELSE LET k == CHOOSE i \in 1..Len(values) :
                      \A j \in 1..Len(values) : values[i] <= values[j]
         IN <<values[k]>>
            \o SortInts([i \in 1..(Len(values) - 1) |->
                            IF i < k THEN values[i] ELSE values[i + 1]])

\* Series.median(), held as the count of halves (a median of 2.5 is 5); NaN,
\* the median of no values, is NoneInt.
Median(df, field) ==
    LET values == SortInts(DropNa(df, field))
        n == Len(values)
    IN IF n = 0 THEN NoneInt
       ELSE IF (n % 2) = 1 THEN 2 * values[(n + 1) \div 2]
       ELSE values[n \div 2] + values[n \div 2 + 1]

\* str(n) of a natural number.
RECURSIVE Format(_)
Format(n) ==
    IF n < 10 THEN <<Digits[n + 1]>>
    ELSE Format(n \div 10) \o <<Digits[(n % 10) + 1]>>

\* f"{int(years.min())}-{int(years.max())}"
YearRange(years) == Format(IntMin(Range(years))) \o <<"-">> \o Format(IntMax(Range(years)))

\* head(n) of a Series or a list.
Head_(values, n) == SubSeq(values, 1, IF Len(values) < n THEN Len(values) ELSE n)

\* The distinct values of a sequence in order of first appearance, each with
\* the number of times it occurs.
RECURSIVE Tally(_)
Tally(values) ==
    IF values = <<>> THEN <<>>
    ELSE LET init == Tally(SubSeq(values, 1, Len(values) - 1))
             last == values[Len(values)]
         IN IF \E i \in 1..Len(init) : init[i].value = last
            THEN [i \in 1..Len(init) |->
                     IF init[i].value = last
                     THEN [init[i] EXCEPT !.count = @ + 1]
                     ELSE init[i]]
            ELSE Append(init, [value |-> last, count |-> 1])

\* The entries of a tally by falling count, equal counts in the order they
\* stand in.
RECURSIVE ByCount(_)
ByCount(tally) ==
    IF tally = <<>> THEN <<>>
    ELSE LET k == CHOOSE i \in 1..Len(tally) :
                      /\ \A j \in 1..Len(tally) : tally[j].count <= tally[i].count
                      /\ \A j \in 1..(i - 1) : tally[j].count < tally[i].count
         IN <<tally[k]>>
            \o ByCount([i \in 1..(Len(tally) - 1) |->
                           IF i < k THEN tally[i] ELSE tally[i + 1]])

\* Series.value_counts() of a string column: missing values are left out.
ValueCounts(df, field) ==
    ByCount(Tally(SelectSeq([i \in 1..Len(df) |-> df[i][field]],
                            LAMBDA v : v # None)))

\* Series.value_counts() of a numeric column.
ValueCountsInt(df, field) == ByCount(Tally(DropNa(df, field)))

-----------------------------------------------------------------------------
(* merger.resolve_conflicts *)

\* The source names as Python strings.
Str(source) ==
    CASE source = "openalex" -> <<"o", "p", "e", "n", "a", "l", "e", "x">>
      [] source = "semantic_scholar" ->
            <<"s", "e", "m", "a", "n", "t", "i", "c", "_",
              "s", "c", "h", "o", "l", "a", "r">>
      [] source = "nber" -> <<"n", "b", "e", "r">>

\* ABSTRACT_PRIORITY read from the end.
AbstractPriorityReversed == <<"nber", "semantic_scholar", "openalex">>

\* Priority order for abstract selection.
ABSTRACT_PRIORITY == <<"openalex", "semantic_scholar", "nber">>

\* What resolve_conflicts returns when no entry resolves to a row, which
\* merge_papers' `if merged:` takes for false.
NoMerged == [none |-> TRUE]

\* The loop that builds source_data: the rows of the entries whose
\* source_index is in the index of the source's frame, tagged with _source.
RECURSIVE SourceData(_, _, _)
SourceData(rows, dfs, i) ==
    IF i > Len(rows) THEN <<>>
    ELSE LET source == rows[i].source
             idx == rows[i].source_index
         IN (IF idx \in Index(dfs[source])
             THEN <<Loc(dfs[source], idx) @@ [_source |-> source]>>
             ELSE <<>>)
            \o SourceData(rows, dfs, i + 1)

\* FirstLongest with `>=` for `>` in the scan: the last of the longest.
LastLongest(values) ==
    values[CHOOSE i \in 1..Len(values) :
              /\ \A j \in 1..Len(values) : Len(values[j]) <= Len(values[i])
              /\ \A j \in (i + 1)..Len(values) : Len(values[j]) < Len(values[i])]

\* max(values, key=len): the first of the longest.
FirstLongest(values) ==
    values[CHOOSE i \in 1..Len(values) :
              /\ \A j \in 1..Len(values) : Len(values[j]) <= Len(values[i])
              /\ \A j \in 1..(i - 1) : Len(values[j]) < Len(values[i])]

\* [d.get(field) for d in source_data if d.get(field)] of a string column
TruthyValues(source_data, field) ==
    LET all == [i \in 1..Len(source_data) |-> source_data[i][field]]
    IN SelectSeq(all, Truthy)

\* [d.get(field) for d in source_data if d.get(field) and pd.notna(...)] of a
\* numeric column
TruthyInts(source_data, field) ==
    LET all == [i \in 1..Len(source_data) |-> source_data[i][field]]
    IN SelectSeq(all, TruthyInt)

FirstOrNone(values) == IF values = <<>> THEN None ELSE values[1]

\* `abstract and pd.notna(abstract) and str(abstract).strip()`
HasAbstract(data) == Truthy(data.abstract) /\ Strip(data.abstract) # <<>>

\* The inner loop `for data in source_data` of the abstract resolution, for
\* one priority_source: the first row of that source with an abstract, as
\* <<abstract, abstract_source>>, or <<>>.
AbstractOfSource(source_data, priority_source) ==
    LET hits == SelectSeq(source_data,
                          LAMBDA d : d._source = priority_source /\ HasAbstract(d))
    IN IF hits = <<>> THEN <<>>
       ELSE <<hits[1].abstract,
              IF Truthy(hits[1].abstract_source)
              THEN hits[1].abstract_source
              ELSE Str(priority_source)>>

\* for priority_source in ABSTRACT_PRIORITY, from k on; the loop breaks on
\* the first source that gave an abstract.
RECURSIVE ResolveAbstract(_, _)
ResolveAbstract(source_data, k) ==
    IF k > Len(ABSTRACT_PRIORITY) THEN <<None, None>>
    ELSE LET hit == AbstractOfSource(source_data, ABSTRACT_PRIORITY[k])
         IN IF hit # <<>> THEN hit ELSE ResolveAbstract(source_data, k + 1)

\* `data.get('doi_normalized') or data.get('doi')`
DoiOf(data) == IF Truthy(data.doi_normalized) THEN data.doi_normalized ELSE data.doi

\* The DOI loop: the first row whose doi_normalized-or-doi is truthy.
ResolveDoi(source_data) ==
    FirstOrNone(SelectSeq([i \in 1..Len(source_data) |-> DoiOf(source_data[i])],
                          Truthy))

\* `url and pd.notna(url) and str(url).strip()`, first hit.
ResolveUrl(source_data) ==
    FirstOrNone(SelectSeq([i \in 1..Len(source_data) |-> source_data[i].open_access_url],
                          LAMBDA url : Truthy(url) /\ Strip(url) # <<>>))

\* `d.get('venue') or d.get('source_name')`, first truthy.
ResolveVenue(source_data) ==
    FirstOrNone(SelectSeq([i \in 1..Len(source_data) |->
                              IF Truthy(source_data[i].venue)
                              THEN source_data[i].venue
                              ELSE source_data[i].source_name],
                          Truthy))

\* The longest title, the longest authors string.
ResolveLongest(source_data, field) ==
    LET values == TruthyValues(source_data, field)
    IN IF values = <<>> THEN None ELSE FirstLongest(values)

\* max() of the truthy values of a numeric column, or None.
ResolveMax(source_data, field) ==
    LET values == TruthyInts(source_data, field)
    IN IF values = <<>> THEN NoneInt ELSE IntMax(Range(values))

\* min() of the truthy values of a numeric column, or None.
ResolveMin(source_data, field) ==
    LET values == TruthyInts(source_data, field)
    IN IF values = <<>> THEN NoneInt ELSE IntMin(Range(values))

\* min() of the truthy publication dates, or None.
ResolveDate(source_data) ==
    LET values == TruthyValues(source_data, "publication_date")
    IN IF values = <<>> THEN None ELSE StrMin(Range(values))

\* ' | '.join(sorted(all_terms)) if all_terms else None
ResolveSearchTerms(source_data) ==
    LET all_terms == Range(TruthyValues(source_data, "search_term"))
    IN IF all_terms = {} THEN None
       ELSE Join(<<" ", "|", " ">>, Sorted(all_terms))

\* sources_present
SourcesPresent(source_data) == {source_data[i]._source : i \in 1..Len(source_data)}

\* The loop over source_data that sets <source>_id: every row of the source
\* assigns, so the last one stays.
ResolveSourceId(source_data, source) ==
    LET own == SelectSeq(source_data, LAMBDA d : d._source = source)
    IN IF own = <<>> THEN None ELSE own[Len(own)].own_id

\* The policy columns: the first truthy value.
ResolveFirst(source_data, field) == FirstOrNone(TruthyValues(source_data, field))

ResolveFirstInt(source_data, field) ==
    LET values == TruthyInts(source_data, field)
    IN IF values = <<>> THEN NoneInt ELSE values[1]

\* Flag read off the first row of source_data alone.
FlagOfFirst(source_data, source) == IF source_data[1]._source = source THEN 1 ELSE 0

\* merged['in_<source>'] = 1 if '<source>' in sources_present else 0
Flag(source_data, source) == IF source \in SourcesPresent(source_data) THEN 1 ELSE 0

\* rows: the registry entries of one unified_id, in registry order.
resolve_conflicts(rows, dfs) ==
    LET source_data == SourceData(rows, dfs, 1)
        abstract == ResolveAbstract(source_data, 1)
    IN IF source_data = <<>> THEN NoMerged
       ELSE [title |-> ResolveLongest(source_data, "title"),
             abstract |-> abstract[1],
             abstract_source |-> abstract[2],
             doi |-> ResolveDoi(source_data),
             open_access_url |-> ResolveUrl(source_data),
             authors |-> ResolveLongest(source_data, "authors"),
             author_count |-> ResolveMax(source_data, "author_count"),
             publication_year |-> ResolveMin(source_data, "publication_year"),
             publication_date |-> ResolveDate(source_data),
             cited_by_count |-> ResolveMax(source_data, "cited_by_count"),
             venue |-> ResolveVenue(source_data),
             search_terms |-> ResolveSearchTerms(source_data),
             in_openalex |-> Flag(source_data, "openalex"),
             in_semantic_scholar |-> Flag(source_data, "semantic_scholar"),
             in_nber |-> Flag(source_data, "nber"),
             openalex_id |-> ResolveSourceId(source_data, "openalex"),
             semantic_scholar_id |-> ResolveSourceId(source_data, "semantic_scholar"),
             nber_id |-> ResolveSourceId(source_data, "nber"),
             policy_studied |-> ResolveFirst(source_data, "policy_studied"),
             policy_year |-> ResolveFirstInt(source_data, "policy_year"),
             policy_abbreviation |-> ResolveFirst(source_data, "policy_abbreviation"),
             policy_category |-> ResolveFirst(source_data, "policy_category"),
             normalized_title |-> rows[1].normalized_title,
             match_method |-> rows[1].match_method]

-----------------------------------------------------------------------------
(* merger.merge_papers *)

\* registry['unified_id'].unique(): the ids in order of first appearance.
RECURSIVE Unique(_)
Unique(ids) ==
    IF ids = <<>> THEN <<>>
    ELSE LET init == Unique(SubSeq(ids, 1, Len(ids) - 1))
             last == ids[Len(ids)]
         IN IF last \in Range(init) THEN init ELSE Append(init, last)

UnifiedIds(reg) == Unique([i \in 1..Len(reg) |-> reg[i].unified_id])

\* registry[registry['unified_id'] == uid].to_dict('records')
EntriesOf(reg, uid) == SelectSeq(reg, LAMBDA e : e.unified_id = uid)

\* MergeOne with `if merged['title']:` for `if merged:`.
MergeOneTitled(reg, dfs, uid) ==
    LET merged == resolve_conflicts(EntriesOf(reg, uid), dfs)
    IN IF merged # NoMerged /\ Truthy(merged.title)
       THEN <<merged @@ [unified_id |-> uid]>>
       ELSE <<>>

\* `if merged:` then the record gets its unified_id and is appended.
MergeOne(reg, dfs, uid) ==
    LET merged == resolve_conflicts(EntriesOf(reg, uid), dfs)
    IN IF merged # NoMerged THEN <<merged @@ [unified_id |-> uid]>> ELSE <<>>

\* for i, uid in enumerate(unified_ids), from id k on: merged_records.
RECURSIVE MergedRecords(_, _, _, _)
MergedRecords(reg, dfs, unified_ids, k) ==
    IF k > Len(unified_ids) THEN <<>>
    ELSE MergeOne(reg, dfs, unified_ids[k])
         \o MergedRecords(reg, dfs, unified_ids, k + 1)

merge_papers(reg, dfs) == MergedRecords(reg, dfs, UnifiedIds(reg), 1)

-----------------------------------------------------------------------------
(* The parts of the state a run does not use. *)

\* The value of doi_result before normalize_doi returns.
NotCalled == <<"not called">>

\* normalize_doi has not been called.
NoDoiCall == doi_cell = None /\ doi_result = NotCalled

\* process_policy has not been entered.
NoPolicyRun ==
    /\ dataframes = <<>>
    /\ registry = <<>>
    /\ unified = <<>>
    /\ pc = "idle"
    /\ error = "None"
    /\ source_metrics = <<>>
    /\ coverage_analysis = <<>>
    /\ report_paths = <<>>

\* main has not been entered.
NoMainRun ==
    /\ policy_abbrs = <<>>
    /\ topic_files = <<>>
    /\ all_results = <<>>
    /\ main_pc = "idle"
    /\ main_error = "None"

\* A frame without columns or rows.
NoPapers == [has_source |-> FALSE, rows |-> <<>>]

\* complement_abstracts has not been entered.
NoComplementRun ==
    /\ df_loaded = NoPapers
    /\ df_complemented = NoPapers
    /\ same_frame = FALSE
    /\ ca_pc = "idle"
    /\ to_fetch = <<>>
    /\ pdf_urls_to_process = <<>>
    /\ js_urls_to_process = <<>>
    /\ pdf_extraction_available = FALSE

\* No call of search_semantic_scholar.
NoSearchRun ==
    /\ limit = 0
    /\ max_results = 0
    /\ max_retries = 0
    /\ offset = 0
    /\ retry = 0
    /\ results_so_far = 0
    /\ requests_sent = 0
    /\ search_pc = "idle"
    /\ returned = NoneInt

\* A dict without keys.
NoStats == [none |-> TRUE]

\* No run of process_policy of complement_abstracts_main.
NoRelevanceRun ==
    /\ search_terms = <<>>
    /\ df_filtered = NoPapers
    /\ filter_stats = NoStats
    /\ saved_files = {}
    /\ cp_pc = "idle"
    /\ cp_error = "None"

\* What the steps of process_policy leave alone.
outsidePolicy == <<doiVars, mainVars, complementVars, searchVars, relevanceVars>>

\* What a call of normalize_doi leaves alone.
outsideDoi == <<policyVars, mainVars, complementVars, searchVars, relevanceVars>>

\* What main leaves alone: it hands process_policy its own locals.
outsideMain == <<policyVars, doiVars, complementVars, searchVars, relevanceVars>>

\* What complement_abstracts leaves alone.
outsideComplement == <<policyVars, doiVars, mainVars, searchVars, relevanceVars>>

\* What search_semantic_scholar leaves alone.
outsideSearch == <<policyVars, doiVars, mainVars, complementVars, relevanceVars>>

\* What the steps of process_policy after complement_abstracts leave alone.
outsideRelevance == <<policyVars, doiVars, mainVars, searchVars>>

-----------------------------------------------------------------------------
(* The source collections of the runs. *)

DoiUrlUpper ==
    <<"h", "t", "t", "p", "s", ":", "/", "/", "d", "o", "i", ".", "o", "r", "g", "/",
      "1", "0", ".", "1", "/", "X">>

DoiBare == <<"1", "0", ".", "1", "/", "x">>

DoiOther == <<" ", "D", "O", "I", ":", "1", "0", ".", "2", "/", "y", " ">>

DoiMalformed == <<"n", "/", "a">>

TitleImpact ==
    <<"T", "h", "e", " ", "I", "m", "p", "a", "c", "t", " ", "o", "f", " ",
      "P", "o", "l", "i", "c", "y">>

TitleImpactPunct ==
    <<"t", "h", "e", " ", "i", "m", "p", "a", "c", "t", " ", "o", "f", " ",
      "p", "o", "l", "i", "c", "y", "!", "!">>

TitleTenChars == <<"T", "a", "x", " ", "P", "o", "l", "i", "c", "y">>

TitleUnrelated == <<"U", "n", "r", "e", "l", "a", "t", "e", "d">>

TitleFooBar == <<"F", "o", "o", " ", "B", "a", "r">>

TitleMinimumWage == <<"M", "i", "n", "i", "m", "u", "m", " ", "W", "a", "g", "e">>

\* The raw rows the matching runs draw from: DOIs that normalize to the same
\* key, to another key and to none; titles that normalize to the same key, a
\* title of exactly ten characters, a title of two words and more than ten
\* characters, and no title.
MatchRows ==
    { [EmptyRow EXCEPT !.doi = DoiUrlUpper, !.title = TitleFooBar],
      [EmptyRow EXCEPT !.doi = DoiBare, !.title = TitleUnrelated],
      [EmptyRow EXCEPT !.doi = DoiOther, !.title = TitleImpact],
      [EmptyRow EXCEPT !.doi = DoiMalformed],
      [EmptyRow EXCEPT !.title = TitleImpact],
      [EmptyRow EXCEPT !.title = TitleImpactPunct],
      [EmptyRow EXCEPT !.title = TitleTenChars],
      [EmptyRow EXCEPT !.title = TitleMinimumWage] }

TitleFooBarLower == <<"f", "o", "o", " ", "b", "a", "r">>

\* The raw rows the merging runs draw from.  Four carry DOIs of one key, so
\* that any of them fall into one group, with titles of one length, abstracts
\* that are present, blank and missing, citation counts that are positive,
\* zero and missing; two carry one title key and no DOI key.
MergeRows ==
    { [EmptyRow EXCEPT !.doi = DoiUrlUpper, !.title = TitleFooBar,
                       !.abstract = <<"a", "b">>, !.cited_by_count = 0,
                       !.venue = <<"v", "a">>, !.own_id = <<"w", "1">>,
                       !.open_access_url = <<"u", "1">>,
                       !.policy_studied = <<"p", "1">>],
      [EmptyRow EXCEPT !.doi = DoiBare, !.title = TitleFooBarLower,
                       !.abstract = <<"c", "d">>,
                       !.abstract_source = <<"c", "r", "o", "s", "s", "r", "e", "f">>,
                       !.cited_by_count = 2,
                       !.venue = <<"v", "b">>, !.own_id = <<"w", "2">>,
                       !.authors = <<"A", " ", "B">>],
      [EmptyRow EXCEPT !.doi = DoiBare, !.abstract = <<" ">>,
                       !.source_name = <<"v", "c">>,
                       !.open_access_url = <<"u", "2">>],
      [EmptyRow EXCEPT !.doi = DoiBare, !.title = TitleUnrelated,
                       !.cited_by_count = 0, !.authors = <<"C", " ", "D">>],
      [EmptyRow EXCEPT !.doi = DoiMalformed, !.title = TitleImpact,
                       !.abstract = <<"e">>, !.cited_by_count = 1],
      [EmptyRow EXCEPT !.title = TitleImpactPunct, !.cited_by_count = 0] }

\* The contents of a file of n rows drawn from `rows`.
RawFrames(rows, n) == [1..n -> rows]

\* The row counts of the three files, at most MaxRecords together.
Sizes ==
    {t \in (0..MaxRecords) \X (0..MaxRecords) \X (0..MaxRecords) :
        t[1] + t[2] + t[3] <= MaxRecords}

\* df = standardize_dataframe(df, source) of load_all_sources, for every
\* file of n rows drawn from `rows`.
StandardFrames(rows, n) == {standardize_dataframe(f) : f \in RawFrames(rows, n)}

\* `has_abstract`, `has_doi` and `has_oa_url` of calculate_quality_metrics.
HasAbstractCell(row) == Truthy(row.abstract)

HasDoiKey(row) == row.doi_normalized # None

HasOaUrl(row) == Truthy(row.open_access_url)

\* calculate_quality_metrics: the percentages are counts of tenths, the
\* median a count of halves.
calculate_quality_metrics(df, source) ==
    IF Len(df) = 0
    THEN [source |-> source, total_papers |-> 0,
          pct_with_abstract |-> 0, pct_with_doi |-> 0, pct_with_oa_url |-> 0,
          year_range |-> None, median_citations |-> NoneInt]
    ELSE LET years == DropNa(df, "publication_year")
         IN [source |-> source, total_papers |-> Len(df),
             pct_with_abstract |-> Pct(SelectSeq(df, HasAbstractCell), df),
             pct_with_doi |-> Pct(SelectSeq(df, HasDoiKey), df),
             pct_with_oa_url |-> Pct(SelectSeq(df, HasOaUrl), df),
             year_range |-> IF Len(years) > 0 THEN YearRange(years) ELSE None,
             median_citations |-> Median(df, "cited_by_count")]

\* What load_openalex_data, load_semantic_scholar_data and load_nber_data
\* return: the frame of the source's file, or None when there is no file.
\* The frame is held as standardize_dataframe leaves it.
Found(df) == [found |-> TRUE, df |-> df]

NotFound == [found |-> FALSE, df |-> <<>>]

\* load_all_sources: the dict of the standardized frames of the sources
\* that have a file, in the order openalex, semantic_scholar, nber, and the
\* metrics of each.
load_all_sources(df_oa, df_ss, df_nber) ==
    LET loaded == [openalex |-> df_oa, semantic_scholar |-> df_ss, nber |-> df_nber]
        present == {source \in SourceSet : loaded[source].found}
    IN [dataframes |-> [source \in present |-> loaded[source].df],
        metrics |-> [source \in present |->
                        calculate_quality_metrics(loaded[source].df, source)]]

\* list(dataframes.keys()): the sources loaded, in the order of loading.
Keys(dfs) == SelectSeq(Sources, LAMBDA source : source \in DOMAIN dfs)

Init ==
    /\ \E t \in Sizes :
          \E oa \in StandardFrames(MatchRows, t[1]),
             ss \in StandardFrames(MatchRows, t[2]),
             nb \in StandardFrames(MatchRows, t[3]) :
              \E loaded \in {load_all_sources(Found(oa), Found(ss), Found(nb))} :
                  /\ dataframes = loaded.dataframes
                  /\ source_metrics = loaded.metrics
    /\ registry = <<>>
    /\ unified = <<>>
    /\ pc = "loaded"
    /\ error = "None"
    /\ coverage_analysis = <<>>
    /\ report_paths = <<>>
    /\ NoDoiCall
    /\ NoMainRun
    /\ NoComplementRun
    /\ NoSearchRun
    /\ NoRelevanceRun

\* The runs over the rows that exercise the merger.
InitMerge ==
    /\ \E t \in Sizes :
          \E oa \in StandardFrames(MergeRows, t[1]),
             ss \in StandardFrames(MergeRows, t[2]),
             nb \in StandardFrames(MergeRows, t[3]) :
              \E loaded \in {load_all_sources(Found(oa), Found(ss), Found(nb))} :
                  /\ dataframes = loaded.dataframes
                  /\ source_metrics = loaded.metrics
    /\ registry = <<>>
    /\ unified = <<>>
    /\ pc = "loaded"
    /\ error = "None"
    /\ coverage_analysis = <<>>
    /\ report_paths = <<>>
    /\ NoDoiCall
    /\ NoMainRun
    /\ NoComplementRun
    /\ NoSearchRun
    /\ NoRelevanceRun

\* df[df.index.isin(keep)]: rows dropped from a frame keep the labels of the
\* rest.
KeepRows(df, keep) == SelectSeq(df, LAMBDA row : row.idx \in keep)

\* merge_papers called on its own: the registry was made of the frames as
\* loaded, and the frames it is handed have since lost some of their rows.
InitHandOff ==
    \E t \in Sizes :
        \E oa \in StandardFrames(MatchRows, t[1]),
           ss \in StandardFrames(MatchRows, t[2]),
           nb \in StandardFrames(MatchRows, t[3]) :
            \E full \in {load_all_sources(Found(oa), Found(ss), Found(nb)).dataframes} :
                \E reg \in {create_match_registry(Sources, full)},
                   koa \in SUBSET Index(full.openalex),
                   kss \in SUBSET Index(full.semantic_scholar),
                   knb \in SUBSET Index(full.nber) :
                    /\ reg # <<>>
                    /\ registry = reg
                    /\ dataframes =
                           [openalex |-> KeepRows(full.openalex, koa),
                            semantic_scholar |-> KeepRows(full.semantic_scholar, kss),
                            nber |-> KeepRows(full.nber, knb)]
                    /\ unified = <<>>
                    /\ pc = "matched"
                    /\ error = "None"
                    /\ source_metrics = <<>>
                    /\ coverage_analysis = <<>>
                    /\ report_paths = <<>>
                    /\ NoDoiCall
                    /\ NoMainRun
                    /\ NoComplementRun
                    /\ NoSearchRun
                    /\ NoRelevanceRun

-----------------------------------------------------------------------------
(* coverage_analyzer *)

\* unified_df[f'in_{source}'] of one row.
In(u, source) ==
    CASE source = "openalex" -> u.in_openalex
      [] source = "semantic_scholar" -> u.in_semantic_scholar
      [] source = "nber" -> u.in_nber

\* unified_df[(unified_df[col1] == 1) & (unified_df[col2] == 0)]
OnlyIn(unified_df, source1, source2) ==
    SelectSeq(unified_df, LAMBDA u : In(u, source1) = 1 /\ In(u, source2) = 0)

\* InBoth with `|` in the place of `&`.
InEither(unified_df, source1, source2) ==
    SelectSeq(unified_df, LAMBDA u : In(u, source1) = 1 \/ In(u, source2) = 1)

\* unified_df[(unified_df[col1] == 1) & (unified_df[col2] == 1)]
InBoth(unified_df, source1, source2) ==
    SelectSeq(unified_df, LAMBDA u : In(u, source1) = 1 /\ In(u, source2) = 1)

\* unified_df['in_<source>'].sum()
PapersIn(unified_df, source) ==
    Cardinality({i \in 1..Len(unified_df) : In(unified_df[i], source) = 1})

\* An empty dict.
EmptyDict == [empty |-> TRUE]

\* in_s1_only['doi'].notna() of one row.
DoiNotNa(u) == u.doi # None

\* The dict analysis['source1_only_analysis'] of a partition that has rows.
OnlyAnalysis(part) ==
    [year_distribution |-> Head_(ValueCountsInt(part, "publication_year"), 10),
     pct_with_abstract |-> Pct(SelectSeq(part, HasAbstractCell), part),
     pct_with_doi |-> Pct(SelectSeq(part, DoiNotNa), part),
     median_citations |-> Median(part, "cited_by_count"),
     top_venues |-> Head_(ValueCounts(part, "venue"), 5),
     sample_titles |-> Head_([i \in 1..Len(part) |-> part[i].title], 5)]

analyze_source_pair(unified_df, source1, source2) ==
    LET in_s1_only == OnlyIn(unified_df, source1, source2)
        in_s2_only == OnlyIn(unified_df, source2, source1)
        in_both == InBoth(unified_df, source1, source2)
    IN [source1 |-> source1,
        source2 |-> source2,
        in_source1_only |-> Len(in_s1_only),
        in_source2_only |-> Len(in_s2_only),
        in_both |-> Len(in_both),
        source1_only_analysis |->
            IF Len(in_s1_only) > 0 THEN OnlyAnalysis(in_s1_only) ELSE EmptyDict,
        source2_only_analysis |->
            IF Len(in_s2_only) > 0 THEN OnlyAnalysis(in_s2_only) ELSE EmptyDict]

\* nber_only, oa_only and ss_only of generate_hypotheses.
NberOnly(unified_df) ==
    SelectSeq(unified_df,
              LAMBDA u : u.in_nber = 1 /\ u.in_openalex = 0 /\ u.in_semantic_scholar = 0)

OaOnly(unified_df) == OnlyIn(unified_df, "openalex", "semantic_scholar")

SsOnly(unified_df) == OnlyIn(unified_df, "semantic_scholar", "openalex")

\* Hypothesis 1: NBER only indexes NBER working papers.
Hypothesis1(unified_df) ==
    LET nber_only == NberOnly(unified_df)
    IN IF Len(nber_only) > 0
       THEN <<[hypothesis |-> "NBER source only indexes NBER working papers",
               evidence |->
                   [nber_only_papers |-> Len(nber_only),
                    total_nber_papers |-> PapersIn(unified_df, "nber"),
                    top_venues_in_nber_only |->
                        Head_(ValueCounts(nber_only, "venue"), 3)]]>>
       ELSE <<>>

\* Hypothesis 2: OpenAlex has better DOI coverage.  The percentage of a
\* partition without rows is set to 0.
Hypothesis2(unified_df) ==
    LET oa_only == OaOnly(unified_df)
        ss_only == SsOnly(unified_df)
    IN IF Len(oa_only) > 0 \/ Len(ss_only) > 0
       THEN <<[hypothesis |->
                   "OpenAlex has more complete DOI metadata than Semantic Scholar",
               evidence |->
                   [openalex_only_papers |-> Len(oa_only),
                    semantic_scholar_only_papers |-> Len(ss_only),
                    openalex_only_doi_pct |->
                        IF Len(oa_only) > 0
                        THEN Pct(SelectSeq(oa_only, DoiNotNa), oa_only)
                        ELSE 0,
                    semantic_scholar_only_doi_pct |->
                        IF Len(ss_only) > 0
                        THEN Pct(SelectSeq(ss_only, DoiNotNa), ss_only)
                        ELSE 0]]>>
       ELSE <<>>

\* Hypothesis 3: the sources favor different venues.
Hypothesis3(unified_df) ==
    LET ss_only_venues == Head_(ValueCounts(SsOnly(unified_df), "venue"), 5)
        oa_only_venues == Head_(ValueCounts(OaOnly(unified_df), "venue"), 5)
    IN IF ss_only_venues # <<>> \/ oa_only_venues # <<>>
       THEN <<[hypothesis |-> "Sources have different venue coverage patterns",
               evidence |->
                   [top_venues_in_openalex_only |-> oa_only_venues,
                    top_venues_in_semantic_scholar_only |-> ss_only_venues]]>>
       ELSE <<>>

\* int(part['publication_year'].min()) raises ValueError when every year of
\* the partition is NaN.
YearRangeRaises(part) == DropNa(part, "publication_year") = <<>>

\* Hypothesis 4 raises: both partitions have rows and one has no year.
Hypothesis4Raises(unified_df) ==
    /\ Len(OaOnly(unified_df)) > 0
    /\ Len(SsOnly(unified_df)) > 0
    /\ \/ YearRangeRaises(OaOnly(unified_df))
       \/ YearRangeRaises(SsOnly(unified_df))

\* Hypothesis 4: the sources differ in their years.
Hypothesis4(unified_df) ==
    LET oa_only == OaOnly(unified_df)
        ss_only == SsOnly(unified_df)
    IN IF Len(oa_only) > 0 /\ Len(ss_only) > 0
       THEN <<[hypothesis |-> "Sources may have different temporal coverage",
               evidence |->
                   [openalex_only_median_year |-> Median(oa_only, "publication_year"),
                    semantic_scholar_only_median_year |->
                        Median(ss_only, "publication_year"),
                    openalex_only_year_range |->
                        YearRange(DropNa(oa_only, "publication_year")),
                    semantic_scholar_only_year_range |->
                        YearRange(DropNa(ss_only, "publication_year"))]]>>
       ELSE <<>>

\* str(x) of an optional string.
StrOf(x) == IF x = None THEN <<"N", "o", "n", "e">> ELSE x

\* str.split(sep)
RECURSIVE Split(_, _)
Split(str, sep) ==
    LET hits == {i \in 1..(Len(str) - Len(sep) + 1) :
                    SubSeq(str, i, i + Len(sep) - 1) = sep}
    IN IF hits = {} THEN <<str>>
       ELSE LET i == IntMin(hits)
            IN <<SubSeq(str, 1, i - 1)>>
               \o Split(SubSeq(str, i + Len(sep), Len(str)), sep)

\* The terms of one row that are counted: `if term and term.strip()`.
TermsOf(u) ==
    SelectSeq(Split(StrOf(u.search_terms), <<" ", "|", " ">>),
              LAMBDA term : term # <<>> /\ Strip(term) # <<>>)

\* search_term_coverage: for every term the number of rows of each source it
\* stands on.
SearchTermCoverage(unified_df) ==
    LET terms == UNION {Range(TermsOf(unified_df[i])) : i \in 1..Len(unified_df)}
        Times(term, u) == Cardinality({k \in 1..Len(TermsOf(u)) : TermsOf(u)[k] = term})
        RECURSIVE Count(_, _, _)
        Count(term, source, i) ==
            IF i > Len(unified_df) THEN 0
            ELSE (IF In(unified_df[i], source) = 1 THEN Times(term, unified_df[i]) ELSE 0)
                 + Count(term, source, i + 1)
    IN [term \in terms |-> [source \in SourceSet |-> Count(term, source, 1)]]

\* Hypothesis 5: the search terms differ in what they find.
Hypothesis5(unified_df) ==
    LET search_term_coverage == SearchTermCoverage(unified_df)
    IN IF DOMAIN search_term_coverage # {}
       THEN <<[hypothesis |->
                   "Different search terms have different effectiveness across sources",
               evidence |-> [search_term_coverage |-> search_term_coverage]]>>
       ELSE <<>>

generate_hypotheses(unified_df) ==
    Hypothesis1(unified_df) \o Hypothesis2(unified_df) \o Hypothesis3(unified_df)
        \o Hypothesis4(unified_df) \o Hypothesis5(unified_df)

\* (unified_df['in_openalex'] + ... + unified_df['in_nber']) == n, summed.
PapersInExactly(unified_df, n) ==
    Cardinality({i \in 1..Len(unified_df) :
                    unified_df[i].in_openalex + unified_df[i].in_semantic_scholar
                        + unified_df[i].in_nber = n})

\* The list `pairs`.
Pairs ==
    <<<<"openalex", "semantic_scholar">>, <<"openalex", "nber">>,
      <<"semantic_scholar", "nber">>>>

\* analyze_coverage, when generate_hypotheses returns.
analyze_coverage(unified_df) ==
    [overall_stats |->
         [total_unified_papers |-> Len(unified_df),
          papers_in_openalex |-> PapersIn(unified_df, "openalex"),
          papers_in_semantic_scholar |-> PapersIn(unified_df, "semantic_scholar"),
          papers_in_nber |-> PapersIn(unified_df, "nber"),
          papers_in_all_three |-> PapersInExactly(unified_df, 3),
          papers_in_exactly_one |-> PapersInExactly(unified_df, 1),
          papers_in_exactly_two |-> PapersInExactly(unified_df, 2)],
     pairwise_comparisons |->
         [k \in 1..Len(Pairs) |->
             analyze_source_pair(unified_df, Pairs[k][1], Pairs[k][2])],
     hypotheses |-> generate_hypotheses(unified_df)]

\* generate_all_reports: a report for every source of source_metrics, in its
\* order, then the coverage report.
generate_all_reports(metrics) == Keys(metrics) \o <<"coverage_analysis">>

-----------------------------------------------------------------------------
(* unified_dataset_main.process_policy, steps 2 and 3. *)

\* Step 2, match_papers: create_match_registry, then get_match_statistics,
\* whose registry['unified_id'] raises KeyError on the column-less frame that
\* pd.DataFrame([]) is; process_policy catches it into result['error'].
MatchPapers ==
    /\ pc = "loaded"
    /\ LET reg == create_match_registry(Keys(dataframes), dataframes)
       IN IF reg = <<>>
          THEN /\ pc' = "failed"
               /\ error' = "KeyError: 'unified_id'"
               /\ UNCHANGED registry
          ELSE /\ pc' = "matched"
               /\ registry' = reg
               /\ UNCHANGED error
    /\ UNCHANGED <<dataframes, unified, source_metrics, coverage_analysis,
                   report_paths, outsidePolicy>>

\* Step 3, merge_papers: the summary it prints reads unified_df['abstract'],
\* which raises KeyError when no record was merged.
MergePapers ==
    /\ pc = "matched"
    /\ LET merged_records == merge_papers(registry, dataframes)
       IN IF merged_records = <<>>
          THEN /\ pc' = "failed"
               /\ error' = "KeyError: 'abstract'"
               /\ UNCHANGED unified
          ELSE /\ pc' = "merged"
               /\ unified' = merged_records
               /\ UNCHANGED error
    /\ UNCHANGED <<dataframes, registry, source_metrics, coverage_analysis,
                   report_paths, outsidePolicy>>

Next == MatchPapers \/ MergePapers

Spec == Init /\ [][Next]_vars

SpecMerge == InitMerge /\ [][Next]_vars

SpecHandOff == InitHandOff /\ [][MergePapers]_vars

-----------------------------------------------------------------------------
(* unified_dataset_main.process_policy, from step 1 to step 5. *)

\* The raw rows the whole runs draw from: with and without a DOI key, a
\* year, a venue and a search term; the second and the third share a title
\* key.
RowComplete ==
    [EmptyRow EXCEPT !.doi = DoiBare, !.title = TitleFooBar,
                     !.abstract = <<"a", "b">>, !.publication_year = 2019,
                     !.cited_by_count = 2, !.venue = <<"v", "a">>,
                     !.search_term = <<"t", "a", "x">>]

RowNoYear == [EmptyRow EXCEPT !.doi = DoiOther, !.title = TitleImpact]

RowNoDoi ==
    [EmptyRow EXCEPT !.title = TitleImpactPunct, !.publication_year = 2021,
                     !.cited_by_count = 0, !.venue = <<"v", "b">>,
                     !.search_term = <<"a", "c", "a">>]

RowMalformedDoi ==
    [EmptyRow EXCEPT !.doi = DoiMalformed, !.title = TitleTenChars,
                     !.publication_year = 2020, !.venue = <<"v", "a">>,
                     !.search_term = <<"t", "a", "x">>]

PolicyRows == {RowComplete, RowNoYear, RowNoDoi, RowMalformedDoi}

\* What a loader returns for a source of n rows: with no row, there is no
\* file or a file without rows.
Loads(n) ==
    IF n = 0 THEN {NotFound, Found(<<>>)}
    ELSE {Found(df) : df \in StandardFrames(PolicyRows, n)}

\* Step 1, load_all_sources, and the return of process_policy when no source
\* has a file.
InitPolicy ==
    /\ \E t \in Sizes :
          \E oa \in Loads(t[1]), ss \in Loads(t[2]), nb \in Loads(t[3]) :
              \E loaded \in {load_all_sources(oa, ss, nb)} :
                  /\ dataframes = loaded.dataframes
                  /\ source_metrics = loaded.metrics
                  /\ IF DOMAIN loaded.dataframes = {}
                     THEN pc = "failed" /\ error = "No data loaded from any source"
                     ELSE pc = "loaded" /\ error = "None"
    /\ registry = <<>>
    /\ unified = <<>>
    /\ coverage_analysis = <<>>
    /\ report_paths = <<>>
    /\ NoDoiCall
    /\ NoMainRun
    /\ NoComplementRun
    /\ NoSearchRun
    /\ NoRelevanceRun

\* Step 4, analyze_coverage: the ValueError of generate_hypotheses leaves
\* through it and is caught by process_policy into result['error'].
AnalyzeCoverage ==
    /\ pc = "merged"
    /\ IF Hypothesis4Raises(unified)
       THEN /\ pc' = "failed"
            /\ error' = "ValueError: cannot convert float NaN to integer"
            /\ UNCHANGED coverage_analysis
       ELSE /\ pc' = "analyzed"
            /\ coverage_analysis' = analyze_coverage(unified)
            /\ UNCHANGED error
    /\ UNCHANGED <<dataframes, registry, unified, source_metrics, report_paths,
                   outsidePolicy>>

\* Step 5, generate_all_reports, and result['success'] = True.
GenerateAllReports ==
    /\ pc = "analyzed"
    /\ report_paths' = generate_all_reports(source_metrics)
    /\ pc' = "done"
    /\ UNCHANGED <<dataframes, registry, unified, error, source_metrics,
                   coverage_analysis, outsidePolicy>>

NextPolicy == MatchPapers \/ MergePapers \/ AnalyzeCoverage \/ GenerateAllReports

SpecPolicy == InitPolicy /\ [][NextPolicy]_vars

-----------------------------------------------------------------------------
(* unified_dataset_main.main *)

\* A frame or None.
Frame(df) == [found |-> TRUE, df |-> df]

NoFrame == [found |-> FALSE, df |-> <<>>]

\* The dict `result` as process_policy creates it.
NewResult(policy_abbr) ==
    [policy_abbr |-> policy_abbr, success |-> FALSE, error |-> "None",
     unified_df |-> NoFrame, coverage_stats |-> EmptyDict]

\* How a block ends: it returns or an exception leaves it.
Returns(result) == [raised |-> FALSE, exception |-> "None", result |-> result]

Raises(exception, result) ==
    [raised |-> TRUE, exception |-> exception, result |-> result]

\* The try block of process_policy: steps 1 to 5 on the files of the topic;
\* `result` holds what was stored in it before an exception.
TryBlock(policy_abbr, files) ==
    LET result == NewResult(policy_abbr)
        loaded == load_all_sources(files.openalex, files.semantic_scholar, files.nber)
        dfs == loaded.dataframes
        reg == create_match_registry(Keys(dfs), dfs)
        unified_df == merge_papers(reg, dfs)
        merged == [result EXCEPT !.unified_df = Frame(unified_df)]
    IN IF DOMAIN dfs = {}
       THEN Returns([result EXCEPT !.error = "No data loaded from any source"])
       ELSE IF reg = <<>> THEN Raises("KeyError: 'unified_id'", result)
       ELSE IF unified_df = <<>> THEN Raises("KeyError: 'abstract'", result)
       ELSE IF Hypothesis4Raises(unified_df)
       THEN Raises("ValueError: cannot convert float NaN to integer", merged)
       ELSE Returns([merged EXCEPT
                        !.coverage_stats = analyze_coverage(unified_df).overall_stats,
                        !.success = TRUE])

\* A process_policy without its except clause.
ExceptNothing(outcome) == outcome

\* except Exception as e: result['error'] = str(e); then `return result`.
Except(outcome) ==
    IF outcome.raised
    THEN Returns([outcome.result EXCEPT !.error = outcome.exception])
    ELSE outcome

process_policy(policy_abbr, files) == Except(TryBlock(policy_abbr, files))

\* The policy abbreviations of the command line, of the policies file or of
\* the default list.
PolicyNames == {"TCJA", "ACA", "NCLB"}

\* The files of a topic: none; one without rows; two whose records make
\* hypothesis 4 raise; two whose records merge into one; one of one record
\* without abstract.
TopicFiles ==
    { [openalex |-> NotFound, semantic_scholar |-> NotFound, nber |-> NotFound],
      [openalex |-> Found(<<>>), semantic_scholar |-> NotFound, nber |-> NotFound],
      [openalex |-> Found(standardize_dataframe(<<RowNoYear>>)),
       semantic_scholar |-> Found(standardize_dataframe(<<RowComplete>>)),
       nber |-> NotFound],
      [openalex |-> Found(standardize_dataframe(<<RowComplete>>)),
       semantic_scholar |-> Found(standardize_dataframe(<<RowComplete>>)),
       nber |-> Found(<<>>)],
      [openalex |-> NotFound, semantic_scholar |-> NotFound,
       nber |-> Found(standardize_dataframe(<<RowNoDoi>>))] }

\* main before its loop: policy_abbrs is set and all_results is empty.
InitMain ==
    /\ \E n \in 0..MaxPolicies : policy_abbrs \in [1..n -> PolicyNames]
    /\ topic_files \in [PolicyNames -> TopicFiles]
    /\ all_results = <<>>
    /\ main_pc = "loop"
    /\ main_error = "None"
    /\ NoPolicyRun
    /\ NoDoiCall
    /\ NoComplementRun
    /\ NoSearchRun
    /\ NoRelevanceRun

\* One turn of `for policy_abbr in policy_abbrs`: an exception that leaves
\* process_policy leaves main.
ProcessPolicy ==
    /\ main_pc = "loop"
    /\ Len(all_results) < Len(policy_abbrs)
    /\ LET policy_abbr == policy_abbrs[Len(all_results) + 1]
           outcome == process_policy(policy_abbr, topic_files[policy_abbr])
       IN IF outcome.raised
          THEN /\ main_pc' = "crashed"
               /\ main_error' = outcome.exception
               /\ UNCHANGED all_results
          ELSE /\ all_results' = Append(all_results, outcome.result)
               /\ UNCHANGED <<main_pc, main_error>>
    /\ UNCHANGED <<policy_abbrs, topic_files, outsideMain>>

\* total_papers of generate_summary_report.
RECURSIVE TotalPapers(_)
TotalPapers(all_policy_results) ==
    IF all_policy_results = <<>> THEN 0
    ELSE LET result == Head(all_policy_results)
         IN (IF result.unified_df.found THEN Len(result.unified_df.df) ELSE 0)
            + TotalPapers(Tail(all_policy_results))

\* After the loop, generate_summary_report: the overall totals divide by
\* total_papers.
GenerateSummaryReport ==
    /\ main_pc = "loop"
    /\ Len(all_results) = Len(policy_abbrs)
    /\ IF TotalPapers(all_results) = 0
       THEN main_pc' = "crashed" /\ main_error' = "ZeroDivisionError: division by zero"
       ELSE main_pc' = "done" /\ UNCHANGED main_error
    /\ UNCHANGED <<policy_abbrs, topic_files, all_results, outsideMain>>

NextMain == ProcessPolicy \/ GenerateSummaryReport

SpecMain == InitMain /\ [][NextMain]_vars

-----------------------------------------------------------------------------
(* complement_abstracts_main.complement_abstracts *)

\* A row of the OpenAlex scrape without values.
EmptyPaper ==
    [title |-> None, doi |-> None, abstract |-> None, abstract_source |-> None,
     open_access_url |-> None, source_name |-> None, url |-> None]

DoiSsrn == <<"1", "0", ".", "2", "1", "3", "9", "/", "s", "s", "r", "n", ".", "7">>

SourceSsrn == <<"S", "S", "R", "N">>

SourceOpenAlex == <<"O", "p", "e", "n", "A", "l", "e", "x">>

SourceCrossRef == <<"C", "r", "o", "s", "s", "R", "e", "f">>

SourceOpenAccess == <<"O", "p", "e", "n", "A", "c", "c", "e", "s", "s">>

SourcePdf == <<"P", "D", "F">>

SourceSelenium == <<"S", "e", "l", "e", "n", "i", "u", "m">>

\* The rows the frames are drawn from.  Three have an abstract on entry: one
\* marked OpenAlex, one of blanks only, one marked CrossRef by an earlier
\* run.  Four have none: one with a DOI and a URL, one of SSRN with an
\* abstract of '', one without title, one of SSRN without an id.
ComplementRows ==
    { [EmptyPaper EXCEPT !.title = TitleFooBar, !.doi = DoiBare,
                         !.abstract = <<"a", "b">>, !.abstract_source = SourceOpenAlex,
                         !.open_access_url = <<"u", "1">>],
      [EmptyPaper EXCEPT !.title = TitleFooBar, !.doi = DoiBare,
                         !.abstract = <<" ">>, !.abstract_source = <<>>,
                         !.open_access_url = <<"u", "2">>, !.source_name = SourceSsrn],
      [EmptyPaper EXCEPT !.title = TitleImpact, !.doi = DoiSsrn,
                         !.abstract = <<"c", "d">>, !.abstract_source = SourceCrossRef,
                         !.open_access_url = <<"u", "3">>, !.source_name = SourceSsrn],
      [EmptyPaper EXCEPT !.title = TitleImpact, !.doi = DoiBare,
                         !.open_access_url = <<"u", "4">>],
      [EmptyPaper EXCEPT !.title = TitleUnrelated, !.doi = DoiSsrn,
                         !.abstract = <<>>, !.abstract_source = <<>>,
                         !.source_name = SourceSsrn],
      [EmptyPaper EXCEPT !.open_access_url = <<"u", "5">>],
      [EmptyPaper EXCEPT !.title = TitleTenChars,
                         !.source_name = <<"s", "s", "r", "n", " ", "e", "j">>] }

\* The frames of n rows that load_openalex_papers returns, with and without
\* an abstract_source column; read_parquet and read_csv give a RangeIndex.
Papers(n) ==
    {[has_source |-> h,
      rows |-> [i \in 1..n |->
                   (IF h THEN f[i] ELSE [f[i] EXCEPT !.abstract_source = None])
                       @@ [idx |-> i - 1]]] :
        f \in [1..n -> ComplementRows], h \in BOOLEAN}

\* (df['abstract'].isna()) | (df['abstract'] == '') with the blank
\* abstracts counted in.
IsMissingOrBlank(row) == row.abstract = None \/ Strip(row.abstract) = <<>>

\* (df['abstract'].isna()) | (df['abstract'] == '') of one row.
IsMissing(row) == row.abstract = None \/ row.abstract = <<>>

\* df['doi'].notna() & (df['doi'] != '') of one row.
HasDoiCell(row) == row.doi # None /\ row.doi # <<>>

\* df['open_access_url'].notna() & (df['open_access_url'] != '') of one row.
HasOaUrlCell(row) == row.open_access_url # None /\ row.open_access_url # <<>>

\* 'OpenAlex' if pd.notna(x) and str(x).strip() != '' else ''
InitialSource(abstract) ==
    IF abstract # None /\ Strip(abstract) # <<>> THEN SourceOpenAlex ELSE <<>>

\* df = df.copy() and the abstract_source column it is given if it has none.
CopyWithSource(frame) ==
    IF frame.has_source THEN frame
    ELSE [has_source |-> TRUE,
          rows |-> [i \in 1..Len(frame.rows) |->
                       [frame.rows[i] EXCEPT
                           !.abstract_source = InitialSource(frame.rows[i].abstract)]]]

\* The index labels of df[mask], in the order of the frame.
Labels(kept) == [i \in 1..Len(kept) |-> kept[i].idx]

\* df.at[df_idx, 'abstract'] = abstract; df.at[df_idx, 'abstract_source'] = source
SetAbstract(frame, df_idx, abstract, source) ==
    [frame EXCEPT !.rows =
        [i \in 1..Len(frame.rows) |->
            IF frame.rows[i].idx = df_idx
            THEN [frame.rows[i] EXCEPT !.abstract = abstract, !.abstract_source = source]
            ELSE frame.rows[i]]]

\* Series.str.contains(pat, case=False, na=False) of one cell.
ContainsNoCase(cell, pat) ==
    /\ cell # None
    /\ \E i \in 1..(Len(cell) - Len(pat) + 1) :
          SubSeq(Lower(cell), i, i + Len(pat) - 1) = Lower(pat)

\* is_ssrn of one row.
IsSsrn(row) ==
    \/ ContainsNoCase(row.source_name, SourceSsrn)
    \/ ContainsNoCase(row.doi, <<"s", "s", "r", "n">>)

\* re.search(pat + r'(\d+)', text).group(1), or None without a match.
SearchDigits(text, pat) ==
    LET hits == {i \in 1..(Len(text) - Len(pat)) :
                    /\ SubSeq(text, i, i + Len(pat) - 1) = pat
                    /\ text[i + Len(pat)] \in Range(Digits)}
    IN IF hits = {} THEN None
       ELSE LET from == IntMin(hits) + Len(pat)
                to == IntMax({j \in from..Len(text) :
                                 \A k \in from..j : text[k] \in Range(Digits)})
            IN SubSeq(text, from, to)

extract_ssrn_id(url) ==
    IF ~Truthy(url) THEN None
    ELSE IF SearchDigits(url, <<"a", "b", "s", "t", "r", "a", "c", "t", "_", "i", "d", "=">>) # None
    THEN SearchDigits(url, <<"a", "b", "s", "t", "r", "a", "c", "t", "_", "i", "d", "=">>)
    ELSE IF SearchDigits(url, <<"a", "b", "s", "t", "r", "a", "c", "t", "=">>) # None
    THEN SearchDigits(url, <<"a", "b", "s", "t", "r", "a", "c", "t", "=">>)
    ELSE SearchDigits(url, <<"s", "s", "r", "n", ".">>)

\* ssrn_id = extract_ssrn_id(doi) or extract_ssrn_id(url)
SsrnId(row) ==
    IF Truthy(extract_ssrn_id(row.doi)) THEN extract_ssrn_id(row.doi)
    ELSE extract_ssrn_id(row.url)

\* What a fetch returns; every fetch catches its own exceptions.
Fetched(abstract) ==
    [success |-> TRUE, has_abstract |-> TRUE, abstract |-> abstract,
     is_pdf |-> FALSE, failure_reason |-> "None"]

NotFetched(success, is_pdf, failure_reason) ==
    [success |-> success, has_abstract |-> FALSE, abstract |-> None,
     is_pdf |-> is_pdf, failure_reason |-> failure_reason]

\* get_abstract_from_crossref: an abstract, an abstract that is '' once its
\* tags are stripped, a record without abstract, an error.
CrossRefResults ==
    {Fetched(<<"x", "r">>), Fetched(<<>>),
     NotFetched(TRUE, FALSE, "crossref_no_abstract_in_db"),
     NotFetched(FALSE, FALSE, "crossref_api_error")}

\* get_abstract_from_oa_url: an abstract, a PDF, a page that needs
\* JavaScript, a page without abstract, an error.
OaUrlResults ==
    {Fetched(<<"o", "a">>),
     NotFetched(TRUE, TRUE, "oa_url_is_pdf"),
     NotFetched(TRUE, FALSE, "oa_url_javascript_required"),
     NotFetched(TRUE, FALSE, "oa_url_no_matching_selector"),
     NotFetched(FALSE, FALSE, "oa_url_connection_error")}

\* get_abstract_from_pdf, get_abstract_with_selenium, get_abstract_from_ssrn.
PdfResults == {Fetched(<<"p", "d">>), NotFetched(FALSE, TRUE, "pdf_download_failed")}

SeleniumResults == {Fetched(<<"s", "e">>), NotFetched(FALSE, FALSE, "selenium_timeout")}

SsrnResults ==
    {Fetched(<<"s", "s">>), NotFetched(TRUE, FALSE, "ssrn_no_abstract"),
     NotFetched(FALSE, FALSE, "ssrn_error")}

\* complement_abstracts is entered: its df is the frame of its caller.
InitComplement ==
    /\ \E n \in 0..MaxPapers : df_loaded \in Papers(n)
    /\ df_complemented = df_loaded
    /\ same_frame = TRUE
    /\ ca_pc = "entered"
    /\ to_fetch = <<>>
    /\ pdf_urls_to_process = <<>>
    /\ js_urls_to_process = <<>>
    /\ pdf_extraction_available \in BOOLEAN
    /\ NoPolicyRun
    /\ NoDoiCall
    /\ NoMainRun
    /\ NoSearchRun
    /\ NoRelevanceRun

\* An assignment through the name df: it reaches the frame of the caller
\* while the two are one object.
Assign(frame) ==
    /\ df_complemented' = frame
    /\ df_loaded' = IF same_frame THEN frame ELSE df_loaded

\* df = df.copy(), the abstract_source column, and to_fetch_crossref.
CopyFrame ==
    /\ ca_pc = "entered"
    /\ LET copy == CopyWithSource(df_complemented)
       IN /\ df_complemented' = copy
          /\ to_fetch' = Labels(SelectSeq(copy.rows,
                                          LAMBDA row : IsMissing(row) /\ HasDoiCell(row)))
    /\ same_frame' = FALSE
    /\ ca_pc' = "crossref"
    /\ UNCHANGED <<df_loaded, pdf_urls_to_process, js_urls_to_process,
                   pdf_extraction_available, outsideComplement>>

\* Step 1, one turn of the loop: row.get('title', 'Unknown')[:50] raises
\* TypeError on a missing title.
FetchCrossRef ==
    /\ ca_pc = "crossref"
    /\ to_fetch # <<>>
    /\ LET df_idx == Head(to_fetch)
           row == Loc(df_complemented.rows, df_idx)
       IN IF row.title = None
          THEN /\ ca_pc' = "raised"
               /\ UNCHANGED <<df_loaded, df_complemented, to_fetch>>
          ELSE /\ \E result \in CrossRefResults :
                     Assign(IF result.success /\ result.has_abstract
                            THEN SetAbstract(df_complemented, df_idx, result.abstract,
                                             SourceCrossRef)
                            ELSE df_complemented)
               /\ to_fetch' = Tail(to_fetch)
               /\ UNCHANGED ca_pc
    /\ UNCHANGED <<same_frame, pdf_urls_to_process, js_urls_to_process,
                   pdf_extraction_available, outsideComplement>>

\* The end of step 1 and to_fetch_oa.
EndCrossRef ==
    /\ ca_pc = "crossref"
    /\ to_fetch = <<>>
    /\ ca_pc' = "oa_url"
    /\ to_fetch' = Labels(SelectSeq(df_complemented.rows,
                                    LAMBDA row : IsMissing(row) /\ HasOaUrlCell(row)))
    /\ UNCHANGED <<df_loaded, df_complemented, same_frame, pdf_urls_to_process,
                   js_urls_to_process, pdf_extraction_available, outsideComplement>>

\* Step 2, one turn of the loop.
FetchOaUrl ==
    /\ ca_pc = "oa_url"
    /\ to_fetch # <<>>
    /\ LET df_idx == Head(to_fetch)
           row == Loc(df_complemented.rows, df_idx)
       IN IF row.title = None
          THEN /\ ca_pc' = "raised"
               /\ UNCHANGED <<df_loaded, df_complemented, to_fetch,
                              pdf_urls_to_process, js_urls_to_process>>
          ELSE /\ \E result \in OaUrlResults :
                     IF result.success /\ result.has_abstract
                     THEN /\ Assign(SetAbstract(df_complemented, df_idx,
                                                result.abstract, SourceOpenAccess))
                          /\ UNCHANGED <<pdf_urls_to_process, js_urls_to_process>>
                     ELSE IF result.is_pdf
                     THEN /\ pdf_urls_to_process' = Append(pdf_urls_to_process, df_idx)
                          /\ UNCHANGED <<df_loaded, df_complemented, js_urls_to_process>>
                     ELSE IF result.failure_reason = "oa_url_javascript_required"
                     THEN /\ js_urls_to_process' = Append(js_urls_to_process, df_idx)
                          /\ UNCHANGED <<df_loaded, df_complemented, pdf_urls_to_process>>
                     ELSE UNCHANGED <<df_loaded, df_complemented, pdf_urls_to_process,
                                      js_urls_to_process>>
               /\ to_fetch' = Tail(to_fetch)
               /\ UNCHANGED ca_pc
    /\ UNCHANGED <<same_frame, pdf_extraction_available, outsideComplement>>

\* The end of step 2: the PDFs are fetched if pdfplumber was imported.
EndOaUrl ==
    /\ ca_pc = "oa_url"
    /\ to_fetch = <<>>
    /\ ca_pc' = "pdf"
    /\ to_fetch' = IF pdf_extraction_available THEN pdf_urls_to_process ELSE <<>>
    /\ UNCHANGED <<df_loaded, df_complemented, same_frame, pdf_urls_to_process,
                   js_urls_to_process, pdf_extraction_available, outsideComplement>>

\* Step 2b, one turn of the loop.
FetchPdf ==
    /\ ca_pc = "pdf"
    /\ to_fetch # <<>>
    /\ \E result \in PdfResults :
          Assign(IF result.success /\ result.has_abstract
                 THEN SetAbstract(df_complemented, Head(to_fetch), result.abstract,
                                  SourcePdf)
                 ELSE df_complemented)
    /\ to_fetch' = Tail(to_fetch)
    /\ UNCHANGED <<same_frame, ca_pc, pdf_urls_to_process, js_urls_to_process,
                   pdf_extraction_available, outsideComplement>>

\* The end of step 2b; create_selenium_browser may raise, which ends step 2c
\* before its loop.
EndPdf ==
    /\ ca_pc = "pdf"
    /\ to_fetch = <<>>
    /\ ca_pc' = "selenium"
    /\ to_fetch' \in {js_urls_to_process, <<>>}
    /\ UNCHANGED <<df_loaded, df_complemented, same_frame, pdf_urls_to_process,
                   js_urls_to_process, pdf_extraction_available, outsideComplement>>

\* Step 2c, one turn of the loop.
FetchSelenium ==
    /\ ca_pc = "selenium"
    /\ to_fetch # <<>>
    /\ \E result \in SeleniumResults :
          Assign(IF result.success /\ result.has_abstract
                 THEN SetAbstract(df_complemented, Head(to_fetch), result.abstract,
                                  SourceSelenium)
                 ELSE df_complemented)
    /\ to_fetch' = Tail(to_fetch)
    /\ UNCHANGED <<same_frame, ca_pc, pdf_urls_to_process, js_urls_to_process,
                   pdf_extraction_available, outsideComplement>>

\* A column read from a CSV file in which no row has a value is a column of
\* floats, and its .str raises AttributeError; read from Parquet it does not.
StrMayRaise(frame) ==
    /\ Len(frame.rows) > 0
    /\ \/ \A i \in 1..Len(frame.rows) : frame.rows[i].source_name = None
       \/ \A i \in 1..Len(frame.rows) : frame.rows[i].doi = None

\* The end of step 2c and to_fetch_ssrn; create_selenium_browser may raise,
\* which ends step 3 before its loop.
EndSelenium ==
    /\ ca_pc = "selenium"
    /\ to_fetch = <<>>
    /\ \/ /\ ca_pc' = "ssrn"
          /\ to_fetch' \in {Labels(SelectSeq(df_complemented.rows,
                                             LAMBDA row : IsMissing(row) /\ IsSsrn(row))),
                            <<>>}
       \/ /\ StrMayRaise(df_complemented)
          /\ ca_pc' = "raised"
          /\ UNCHANGED to_fetch
    /\ UNCHANGED <<df_loaded, df_complemented, same_frame, pdf_urls_to_process,
                   js_urls_to_process, pdf_extraction_available, outsideComplement>>

\* Step 3, one turn of the loop: the TypeError of a missing title is caught
\* around the loop and ends it; a row without SSRN id is passed over.
FetchSsrn ==
    /\ ca_pc = "ssrn"
    /\ to_fetch # <<>>
    /\ LET df_idx == Head(to_fetch)
           row == Loc(df_complemented.rows, df_idx)
       IN IF row.title = None
          THEN /\ to_fetch' = <<>>
               /\ UNCHANGED <<df_loaded, df_complemented>>
          ELSE IF ~Truthy(SsrnId(row))
          THEN /\ to_fetch' = Tail(to_fetch)
               /\ UNCHANGED <<df_loaded, df_complemented>>
          ELSE /\ \E result \in SsrnResults :
                     Assign(IF result.success /\ result.has_abstract
                            THEN SetAbstract(df_complemented, df_idx, result.abstract,
                                             SourceSsrn)
                            ELSE df_complemented)
               /\ to_fetch' = Tail(to_fetch)
    /\ UNCHANGED <<same_frame, ca_pc, pdf_urls_to_process, js_urls_to_process,
                   pdf_extraction_available, outsideComplement>>

\* The end of step 3, step 4 and `return df, stats`.
EndSsrn ==
    /\ ca_pc = "ssrn"
    /\ to_fetch = <<>>
    /\ ca_pc' = "returned"
    /\ UNCHANGED <<df_loaded, df_complemented, same_frame, to_fetch,
                   pdf_urls_to_process, js_urls_to_process,
                   pdf_extraction_available, outsideComplement>>

NextComplement ==
    \/ CopyFrame
    \/ FetchCrossRef \/ EndCrossRef
    \/ FetchOaUrl \/ EndOaUrl
    \/ FetchPdf \/ EndPdf
    \/ FetchSelenium \/ EndSelenium
    \/ FetchSsrn \/ EndSsrn

SpecComplement == InitComplement /\ [][NextComplement]_vars

-----------------------------------------------------------------------------
(* data_loader.normalize_doi called on its own. *)

\* str.upper()
Upper(s) ==
    [i \in 1..Len(s) |->
        IF s[i] \in Range(LowerCase)
        THEN UpperCase[CHOOSE k \in 1..Len(LowerCase) : LowerCase[k] = s[i]]
        ELSE s[i]]

DxDoiOrg == <<"d", "x", ".", "d", "o", "i", ".", "o", "r", "g", "/">>

\* What a doi cell starts with: nothing, a prefix of normalize_doi's list in
\* lower or in upper case, dx.doi.org/ without a scheme, or a prefix of
\* another resolver.
DoiHeads ==
    {<<>>} \cup Range(DoiPrefixes) \cup {Upper(p) : p \in Range(DoiPrefixes)}
        \cup {DxDoiOrg, Upper(DxDoiOrg), <<"h", "d", "l", ":">>}

\* What follows: identifiers in lower and in upper case, and strings that
\* are no DOI.
DoiBodies ==
    {<<"1", "0", ".", "1", "/", "x">>, <<"1", "0", ".", "1", "/", "X">>,
     <<"1", "0", ".", "2", "/", "y">>, <<"n", "/", "a">>, <<"1", "0">>, <<>>}

Blanks == {<<>>, <<" ">>}

\* The doi cells normalize_doi is called on: missing, empty, and every
\* head and body with and without blanks around them.
DoiCells ==
    {None}
        \cup {a \o h \o b \o d \o c :
                 a \in Blanks, h \in DoiHeads, b \in Blanks, d \in DoiBodies,
                 c \in Blanks}

InitDoi ==
    /\ doi_cell \in DoiCells
    /\ doi_result = NotCalled
    /\ NoPolicyRun
    /\ NoMainRun
    /\ NoComplementRun
    /\ NoSearchRun
    /\ NoRelevanceRun

\* df['doi_normalized'] = df['doi'].apply(normalize_doi), for one cell.
NormalizeDoi ==
    /\ doi_result = NotCalled
    /\ doi_result' = normalize_doi(doi_cell)
    /\ UNCHANGED <<doi_cell, outsideDoi>>

SpecDoi == InitDoi /\ [][NormalizeDoi]_vars

-----------------------------------------------------------------------------
(* complement_abstracts_main.process_policy *)

TermImpact == <<"I", "m", "p", "a", "c", "t">>

TermTax == <<"t", "a", "x">>

\* What load_search_terms returns: [] when the policies file or the policy
\* is not found, else the terms of the policy.
SearchTermLists == {<<>>, <<TermImpact>>, <<TermTax, TermImpact>>}

\* `term_lower in text`
Contains(text, pat) ==
    \E i \in 1..(Len(text) - Len(pat) + 1) : SubSeq(text, i, i + Len(pat) - 1) = pat

\* has_abstract of is_relevant, on str(row.get('abstract', '')).lower().
RelevanceHasAbstract(row) ==
    LET abstract == Lower(StrOf(row.abstract))
    IN /\ abstract # <<>>
       /\ abstract # <<"n", "a", "n">>
       /\ Strip(abstract) # <<>>
       /\ abstract # <<"n", "o", "n", "e">>

\* A term of the list stands in title + ' ' + abstract.
TermMatch(row, terms) ==
    LET text == Lower(StrOf(row.title)) \o <<" ">> \o Lower(StrOf(row.abstract))
    IN \E k \in 1..Len(terms) : Contains(text, Lower(terms[k]))

\* is_relevant of one row.
is_relevant(row, terms) == ~RelevanceHasAbstract(row) \/ TermMatch(row, terms)

\* filter_by_relevance: the frame and the dict of its statistics.  The dict
\* of the early return has no key 'kept_with_abstract_match'.
filter_by_relevance(frame, terms) ==
    IF Len(frame.rows) = 0 \/ Len(terms) = 0
    THEN [df |-> frame,
          stats |-> [kept |-> Len(frame.rows), filtered_with_abstract |-> 0,
                     kept_no_abstract |-> 0]]
    ELSE LET kept == SelectSeq(frame.rows, LAMBDA row : is_relevant(row, terms))
             with_abstract == SelectSeq(frame.rows, RelevanceHasAbstract)
             without == SelectSeq(frame.rows, LAMBDA row : ~RelevanceHasAbstract(row))
         IN [df |-> [frame EXCEPT !.rows = kept],
             stats |-> [kept |-> Len(kept),
                        filtered_with_abstract |-> Len(frame.rows) - Len(kept),
                        kept_no_abstract |-> Len(without),
                        kept_with_abstract_match |-> Len(kept) - Len(without)]]

\* The files process_policy writes.
OutputFiles ==
    {"papers_complemented.parquet", "papers_complemented_filtered.parquet",
     "papers_complemented_filtered.csv", "complement_metadata.json"}

\* process_policy has loaded the papers and the search terms and calls
\* complement_abstracts(df).
InitPipeline ==
    /\ \E n \in 0..MaxPapers : df_loaded \in Papers(n)
    /\ df_complemented = df_loaded
    /\ same_frame = TRUE
    /\ ca_pc = "entered"
    /\ to_fetch = <<>>
    /\ pdf_urls_to_process = <<>>
    /\ js_urls_to_process = <<>>
    /\ pdf_extraction_available \in BOOLEAN
    /\ search_terms \in SearchTermLists
    /\ df_filtered = NoPapers
    /\ filter_stats = NoStats
    /\ saved_files = {}
    /\ cp_pc = "complementing"
    /\ cp_error = "None"
    /\ NoPolicyRun
    /\ NoDoiCall
    /\ NoMainRun
    /\ NoSearchRun

\* An exception of complement_abstracts leaves process_policy.
ComplementRaised ==
    /\ cp_pc = "complementing"
    /\ ca_pc = "raised"
    /\ cp_pc' = "raised"
    /\ cp_error' = "TypeError: 'NoneType' object is not subscriptable"
    /\ UNCHANGED <<search_terms, df_filtered, filter_stats, saved_files,
                   complementVars, outsideRelevance>>

\* df_filtered, filter_stats = filter_by_relevance(df_complemented, search_terms)
FilterByRelevance ==
    /\ cp_pc = "complementing"
    /\ ca_pc = "returned"
    /\ \E filtered \in {filter_by_relevance(df_complemented, search_terms)} :
          /\ df_filtered' = filtered.df
          /\ filter_stats' = filtered.stats
    /\ cp_pc' = "filtered"
    /\ UNCHANGED <<search_terms, saved_files, cp_error, complementVars,
                   outsideRelevance>>

\* The statistics of the filter are printed, the three frames and the
\* metadata are written, and the metadata are returned.
SaveOutputs ==
    /\ cp_pc = "filtered"
    /\ IF "kept_with_abstract_match" \in DOMAIN filter_stats
       THEN /\ saved_files' = OutputFiles
            /\ cp_pc' = "returned"
            /\ UNCHANGED cp_error
       ELSE /\ cp_pc' = "raised"
            /\ cp_error' = "KeyError: 'kept_with_abstract_match'"
            /\ UNCHANGED saved_files
    /\ UNCHANGED <<search_terms, df_filtered, filter_stats, complementVars,
                   outsideRelevance>>

NextPipeline == NextComplement \/ ComplementRaised \/ FilterByRelevance \/ SaveOutputs

SpecPipeline == InitPipeline /\ [][NextPipeline]_vars

-----------------------------------------------------------------------------
(* scrape_semantic_scholar_main.search_semantic_scholar *)

\* The most requests followed for one page.
MaxRequests == 4

\* The largest `total` a response names.
MaxTotal == 4

\* all_results[:max_results], by its length.
Sliced(n) == IF n < max_results THEN n ELSE max_results

\* search_semantic_scholar is entered: all_results = [], offset = 0, and the
\* while test has let the first turn in.
InitSearch ==
    /\ limit \in 1..2
    /\ max_results \in 1..3
    /\ max_retries \in 1..2
    /\ offset = 0
    /\ retry = 0
    /\ results_so_far = 0
    /\ requests_sent = 0
    /\ search_pc = "requesting"
    /\ returned = NoneInt
    /\ NoPolicyRun
    /\ NoDoiCall
    /\ NoMainRun
    /\ NoComplementRun
    /\ NoRelevanceRun

\* return all_results[:max_results]
Return(n) ==
    /\ search_pc' = "returned"
    /\ returned' = Sliced(n)

\* The for loop over range(max_retries) goes to its next turn; when it has
\* none the for statement ends, and the while test, which no turn has
\* changed, lets the next for statement in with retry = 0.
NextRetry(r) == IF r + 1 < max_retries THEN r + 1 ELSE 0

\* A request answered with status 429: sleep and `continue`.
RateLimited ==
    /\ search_pc = "requesting"
    /\ requests_sent < MaxRequests
    /\ requests_sent' = requests_sent + 1
    /\ retry' = NextRetry(retry)
    /\ UNCHANGED <<limit, max_results, max_retries, offset, results_so_far,
                   search_pc, returned, outsideSearch>>

\* A request that raises a RequestException, of the connection or of
\* raise_for_status: retried, or on the last turn the end of the call.
RequestFails ==
    /\ search_pc = "requesting"
    /\ requests_sent < MaxRequests
    /\ requests_sent' = requests_sent + 1
    /\ IF retry < max_retries - 1
       THEN /\ retry' = retry + 1
            /\ UNCHANGED <<search_pc, returned>>
       ELSE /\ Return(results_so_far)
            /\ UNCHANGED retry
    /\ UNCHANGED <<limit, max_results, max_retries, offset, results_so_far,
                   outsideSearch>>

\* A request answered with a page of n results and a `total`: no results or
\* the last page end the call; otherwise the offset moves on and the while
\* test decides on another page.
PageArrives ==
    /\ search_pc = "requesting"
    /\ requests_sent < MaxRequests
    /\ \E n \in 0..limit, total \in 0..MaxTotal :
          IF n = 0
          THEN /\ Return(results_so_far)
               /\ requests_sent' = requests_sent + 1
               /\ UNCHANGED <<offset, retry, results_so_far>>
          ELSE /\ results_so_far' = results_so_far + n
               /\ IF offset + limit >= total
                  THEN /\ Return(results_so_far + n)
                       /\ requests_sent' = requests_sent + 1
                       /\ UNCHANGED <<offset, retry>>
                  ELSE /\ offset' = offset + limit
                       /\ retry' = 0
                       /\ requests_sent' = 0
                       /\ IF results_so_far + n < max_results
                          THEN UNCHANGED <<search_pc, returned>>
                          ELSE Return(results_so_far + n)
    /\ UNCHANGED <<limit, max_results, max_retries, outsideSearch>>

NextSearch == RateLimited \/ RequestFails \/ PageArrives

SpecSearch == InitSearch /\ [][NextSearch]_vars

-----------------------------------------------------------------------------
(* What the properties speak of. *)

\* The record references (source, source_index) of the input.
Refs(dfs) ==
    UNION {{[source |-> src, idx |-> i] : i \in Index(dfs[src])} : src \in SourceSet}

RefOf(entry) == [source |-> entry.source, idx |-> entry.source_index]

\* The row a registry entry stands for.
RowOf(entry) == Loc(dataframes[entry.source], entry.source_index)

\* The MatchGroups of a registry, as sets of record references.
Partition(reg) ==
    {{RefOf(reg[i]) : i \in {j \in 1..Len(reg) : reg[j].unified_id = uid}} :
        uid \in {reg[i].unified_id : i \in 1..Len(reg)}}

\* The match registry has been built.
Matched == pc \in {"matched", "merged"}

\* Every order in which the sources can be supplied.
SourceOrders ==
    {[i \in 1..Len(Sources) |-> Sources[p[i]]] : p \in Permutations(1..Len(Sources))}

\* Every order of the rows of one frame; a row keeps its index label.
RowOrders(df) == {[i \in 1..Len(df) |-> df[p[i]]] : p \in Permutations(1..Len(df))}

\* Every reordering of the rows inside the three collections.
Shuffles(dfs) ==
    {[openalex |-> oa, semantic_scholar |-> ss, nber |-> nb] :
        oa \in RowOrders(dfs.openalex),
        ss \in RowOrders(dfs.semantic_scholar),
        nb \in RowOrders(dfs.nber)}

-----------------------------------------------------------------------------
(* Properties of the matcher. *)

\* C1: create_match_registry places every source record in exactly one
\* MatchGroup: the registry has exactly one row for every (source,
\* source_index) of the input, and no row for anything else.
C1_Partition ==
    pc # "loaded" =>
        /\ \A r \in Refs(dataframes) :
              Cardinality({i \in 1..Len(registry) : RefOf(registry[i]) = r}) = 1
        /\ \A i \in 1..Len(registry) : RefOf(registry[i]) \in Refs(dataframes)

\* A registry of three records that holds a DOI group and a title group.
C1_Witness ==
    /\ pc = "matched"
    /\ Len(registry) = 3
    /\ {registry[i].match_method : i \in 1..Len(registry)} = {"doi", "title"}

\* C2: two records with the same non-absent normalized DOI are always in the
\* same MatchGroup, with match_method doi, whatever their titles are.
C2_DoiPrecedence ==
    Matched =>
        \A i, j \in 1..Len(registry) :
            (/\ Truthy(RowOf(registry[i]).doi_normalized)
             /\ RowOf(registry[i]).doi_normalized = RowOf(registry[j]).doi_normalized)
            => /\ registry[i].unified_id = registry[j].unified_id
               /\ registry[i].match_method = "doi"
               /\ registry[j].match_method = "doi"

\* Two records of different sources with one DOI key and different title keys.
C2_Witness ==
    /\ pc = "matched"
    /\ \E i, j \in 1..Len(registry) :
          /\ registry[i].source # registry[j].source
          /\ Truthy(RowOf(registry[i]).doi_normalized)
          /\ RowOf(registry[i]).doi_normalized = RowOf(registry[j]).doi_normalized
          /\ RowOf(registry[i]).doi # RowOf(registry[j]).doi
          /\ RowOf(registry[i]).normalized_title # RowOf(registry[j]).normalized_title

\* C3: the partition is invariant to input ordering: whatever the order of
\* the rows inside each source collection and the order in which the sources
\* are supplied, the set of MatchGroups (as sets of record references) is
\* the one of this run.
C3_PartitionOrderInvariant ==
    pc = "matched" =>
        \A order \in SourceOrders, dfs \in Shuffles(dataframes) :
            Partition(create_match_registry(order, dfs)) = Partition(registry)

\* A run in which one source holds two records of a title that another
\* source holds too, and a third record stands alone.
C3_Witness ==
    /\ pc = "matched"
    /\ \E i, j, k \in 1..Len(registry) :
          /\ i # j
          /\ registry[i].source = registry[j].source
          /\ registry[i].source # registry[k].source
          /\ registry[i].match_method = "title"
          /\ registry[i].unified_id = registry[j].unified_id
          /\ registry[i].unified_id = registry[k].unified_id

\* Two registry rows of records that carry no DOI key and the same title key.
SameTitleNoDoi(i, j) ==
    /\ i # j
    /\ RowOf(registry[i]).doi_normalized = None
    /\ RowOf(registry[j]).doi_normalized = None
    /\ Truthy(RowOf(registry[i]).normalized_title)
    /\ RowOf(registry[i]).normalized_title = RowOf(registry[j]).normalized_title

\* C5, as claimed: any two records of two different sources that have no DOI
\* key and identical normalized titles are in the same MatchGroup, with
\* match_method title.
C5_CrossSourceTitle_Claimed ==
    Matched =>
        \A i, j \in 1..Len(registry) :
            (SameTitleNoDoi(i, j) /\ registry[i].source # registry[j].source)
            => /\ registry[i].unified_id = registry[j].unified_id
               /\ registry[i].match_method = "title"
               /\ registry[j].match_method = "title"

\* C5, amended: any two records of two different sources that have no DOI
\* key and identical normalized titles of more than ten characters are in the
\* same MatchGroup, with match_method title.
C5_CrossSourceTitle ==
    Matched =>
        \A i, j \in 1..Len(registry) :
            (/\ SameTitleNoDoi(i, j)
             /\ registry[i].source # registry[j].source
             /\ Len(RowOf(registry[i]).normalized_title) > 10)
            => /\ registry[i].unified_id = registry[j].unified_id
               /\ registry[i].match_method = "title"
               /\ registry[j].match_method = "title"

\* Two records of different sources, without DOI key, whose raw titles differ
\* and normalize to one key of more than ten characters.
C5_Witness ==
    /\ pc = "matched"
    /\ \E i, j \in 1..Len(registry) :
          /\ SameTitleNoDoi(i, j)
          /\ registry[i].source # registry[j].source
          /\ RowOf(registry[i]).title # RowOf(registry[j]).title
          /\ Len(RowOf(registry[i]).normalized_title) > 10

-----------------------------------------------------------------------------
(* Properties of the merger. *)

\* The unified_id values of the registry.
RegistryIds == {registry[i].unified_id : i \in 1..Len(registry)}

\* C7: merge_papers produces exactly one UnifiedRecord per MatchGroup: the
\* unified dataset has as many rows as the registry has distinct unified_id
\* values, and every unified_id of the registry is on exactly one row.
C7_OneRecordPerGroup ==
    pc = "merged" =>
        /\ Len(unified) = Cardinality(RegistryIds)
        /\ \A uid \in RegistryIds :
              Cardinality({k \in 1..Len(unified) : unified[k].unified_id = uid}) = 1

\* A merged run with a group of two records and a singleton without a title.
C7_Witness ==
    /\ pc = "merged"
    /\ Len(registry) = 3
    /\ Len(unified) = 2
    /\ \E k \in 1..Len(unified) : unified[k].title = None

\* The registry rows of one unified record.
MemberEntries(uid) ==
    {registry[i] : i \in {j \in 1..Len(registry) : registry[j].unified_id = uid}}

\* The merged values C4 names.
MergedValues(u) ==
    [title |-> u.title, abstract |-> u.abstract,
     abstract_source |-> u.abstract_source, doi |-> u.doi,
     open_access_url |-> u.open_access_url, authors |-> u.authors,
     venue |-> u.venue, policy_studied |-> u.policy_studied,
     policy_year |-> u.policy_year,
     policy_abbreviation |-> u.policy_abbreviation,
     policy_category |-> u.policy_category,
     openalex_id |-> u.openalex_id,
     semantic_scholar_id |-> u.semantic_scholar_id,
     nber_id |-> u.nber_id]

\* The unified records of a run, each identified by its member set.
ByMembers(reg, uni) ==
    {<<{RefOf(reg[i]) : i \in {j \in 1..Len(reg) : reg[j].unified_id = uni[k].unified_id}},
       MergedValues(uni[k])>> : k \in 1..Len(uni)}

\* C4: the merged field values are invariant to input ordering: whatever the
\* order of the rows inside each source collection and the order of the
\* sources, every UnifiedRecord (identified by its member set) has the title,
\* abstract, abstract source, doi, open_access_url, authors, venue, policy
\* fields and per-source ids of this run.
C4_MergedOrderInvariant ==
    pc = "merged" =>
        \A order \in SourceOrders, dfs \in Shuffles(dataframes) :
            LET reg == create_match_registry(order, dfs)
            IN ByMembers(reg, merge_papers(reg, dfs)) = ByMembers(registry, unified)

\* C8: a MatchGroup with no resolvable member is fatal: merge_papers does
\* not complete when none of the registry entries of some unified_id
\* resolves to a row of its source's frame.
C8_UnresolvableGroupAborts ==
    pc = "merged" =>
        \A uid \in RegistryIds :
            \E e \in MemberEntries(uid) : e.source_index \in Index(dataframes[e.source])

\* The present cited_by_count values of the members of a unified record.
MemberCitations(uid) ==
    {RowOf(e).cited_by_count : e \in MemberEntries(uid)} \ {NoneInt}

\* C9: when a member of the group has a present cited_by_count (0
\* included), the merged cited_by_count is present and is at least the
\* maximum of the members' present values.
C9_CitationMonotonic ==
    pc = "merged" =>
        \A k \in 1..Len(unified) :
            MemberCitations(unified[k].unified_id) # {} =>
                /\ unified[k].cited_by_count # NoneInt
                /\ \A n \in MemberCitations(unified[k].unified_id) :
                      unified[k].cited_by_count >= n

\* The fixed order openalex > semantic_scholar > nber.
PriorityRank == [openalex |-> 1, semantic_scholar |-> 2, nber |-> 3]

\* The members of a unified record that have a non-empty abstract (one that
\* is present and not blank).
WithAbstract(uid) == {e \in MemberEntries(uid) : HasAbstract(RowOf(e))}

\* C10: the merged abstract is the abstract of a member from the
\* highest-priority source among those that have a non-empty abstract, in
\* the order openalex > semantic_scholar > nber; a lower-priority abstract
\* is chosen only if no higher-priority member has one.
C10_AbstractPriority ==
    pc = "merged" =>
        \A k \in 1..Len(unified) :
            LET having == WithAbstract(unified[k].unified_id)
            IN having # {} =>
                \E e \in having :
                    /\ unified[k].abstract = RowOf(e).abstract
                    /\ \A other \in having :
                          PriorityRank[e.source] <= PriorityRank[other.source]

\* A group with non-empty abstracts from semantic_scholar and nber that
\* differ, and an openalex member whose abstract is blank or missing.
C10_Witness ==
    /\ pc = "merged"
    /\ \E k \in 1..Len(unified) :
          LET having == WithAbstract(unified[k].unified_id)
          IN /\ \E e, f \in having :
                   /\ e.source = "semantic_scholar"
                   /\ f.source = "nber"
                   /\ RowOf(e).abstract # RowOf(f).abstract
                   /\ unified[k].abstract = RowOf(e).abstract
             /\ \E e \in MemberEntries(unified[k].unified_id) : e.source = "openalex"

\* The keys of the members of a unified record that have a normalized DOI
\* key, in group order (the order of the registry).
MemberDoiKeys(uid) ==
    SelectSeq([i \in 1..Len(EntriesOf(registry, uid)) |->
                   RowOf(EntriesOf(registry, uid)[i]).doi_normalized],
              Truthy)

\* C11: the merged doi of a UnifiedRecord is the normalized DOI key of the
\* first group member, in group order, that has one, and is absent when no
\* member has a normalized DOI key; a raw DOI that failed normalization is
\* never the merged doi.
C11_MergedDoiIsKey ==
    pc = "merged" =>
        \A k \in 1..Len(unified) :
            LET keys == MemberDoiKeys(unified[k].unified_id)
            IN unified[k].doi = IF keys = <<>> THEN None ELSE keys[1]

\* The flag columns of a unified record, by source.
FlagOf(u) ==
    [openalex |-> u.in_openalex, semantic_scholar |-> u.in_semantic_scholar,
     nber |-> u.in_nber]

\* C12: for every UnifiedRecord and every source S, in_S is true if and only
\* if the record's MatchGroup has a member from S; so every UnifiedRecord has
\* at least one flag true.
C12_FlagsMatchMembers ==
    pc = "merged" =>
        \A k \in 1..Len(unified) :
            /\ \A src \in SourceSet :
                  FlagOf(unified[k])[src] =
                      IF \E e \in MemberEntries(unified[k].unified_id) : e.source = src
                      THEN 1 ELSE 0
            /\ \E src \in SourceSet : FlagOf(unified[k])[src] = 1

\* A unified record of a group with members from semantic_scholar and nber
\* and none from openalex, next to a record of openalex alone.
C12_Witness ==
    /\ pc = "merged"
    /\ \E k, m \in 1..Len(unified) :
          /\ {e.source : e \in MemberEntries(unified[k].unified_id)}
                = {"semantic_scholar", "nber"}
          /\ FlagOf(unified[k]) = [openalex |-> 0, semantic_scholar |-> 1, nber |-> 1]
          /\ FlagOf(unified[m]) = [openalex |-> 1, semantic_scholar |-> 0, nber |-> 0]

\* The members of a unified record that have a non-empty title.
WithTitle(uid) == {e \in MemberEntries(uid) : Truthy(RowOf(e).title)}

\* C13: the merged title is a longest non-empty title among the group
\* members, and among members that tie on length it is the title of a member
\* from the highest-priority source (openalex over semantic_scholar over
\* nber); it is missing when no member has a title.
C13_LongestTitle ==
    pc = "merged" =>
        \A k \in 1..Len(unified) :
            LET titled == WithTitle(unified[k].unified_id)
            IN IF titled = {} THEN unified[k].title = None
               ELSE \E e \in titled :
                       /\ unified[k].title = RowOf(e).title
                       /\ \A other \in titled :
                             \/ Len(RowOf(other).title) < Len(RowOf(e).title)
                             \/ /\ Len(RowOf(other).title) = Len(RowOf(e).title)
                                /\ PriorityRank[e.source] <= PriorityRank[other.source]

\* A group whose openalex and nber members have different titles of one
\* length, the longest of the group, and a third member without a title; the
\* openalex title is the merged one.
C13_Witness ==
    /\ pc = "merged"
    /\ \E k \in 1..Len(unified) :
          /\ \E e, f \in WithTitle(unified[k].unified_id) :
                /\ e.source = "openalex"
                /\ f.source = "nber"
                /\ RowOf(e).title # RowOf(f).title
                /\ Len(RowOf(e).title) = Len(RowOf(f).title)
                /\ unified[k].title = RowOf(e).title
          /\ \E g \in MemberEntries(unified[k].unified_id) : ~Truthy(RowOf(g).title)

\* A registry row of a record with no DOI key whose title key no other
\* record has.
UniqueTitleNoDoi(i) ==
    /\ RowOf(registry[i]).doi_normalized = None
    /\ \A j \in 1..Len(registry) :
          (j # i /\ Truthy(RowOf(registry[i]).normalized_title))
          => RowOf(registry[j]).normalized_title # RowOf(registry[i]).normalized_title

\* C14: a record with no DOI key whose title key is shared by no other
\* record becomes its own UnifiedRecord: its group has exactly one member,
\* exactly one in_<source> flag is true, that of its own source, and
\* match_method is none.
C14_SingletonRecord ==
    pc = "merged" =>
        \A i \in 1..Len(registry) :
            UniqueTitleNoDoi(i) =>
                /\ MemberEntries(registry[i].unified_id) = {registry[i]}
                /\ registry[i].match_method = "none"
                /\ \E k \in 1..Len(unified) :
                      /\ unified[k].unified_id = registry[i].unified_id
                      /\ unified[k].match_method = "none"
                      /\ \A src \in SourceSet :
                            FlagOf(unified[k])[src] =
                                IF src = registry[i].source THEN 1 ELSE 0

\* A record with a title of more than ten characters and no DOI, alone with
\* its title next to a record of a DOI group and a record without DOI or
\* title.
C14_Witness ==
    /\ pc = "merged"
    /\ \E i, j, k \in 1..Len(registry) :
          /\ i # j
          /\ registry[k].match_method = "doi"
          /\ UniqueTitleNoDoi(i)
          /\ UniqueTitleNoDoi(j)
          /\ TitleEligible(RowOf(registry[i]).normalized_title)
          /\ RowOf(registry[j]).normalized_title = None

-----------------------------------------------------------------------------
(* Properties of normalize_doi. *)

\* The known DOI URL prefixes: https://doi.org/ and http://doi.org/,
\* dx.doi.org/ with and without a scheme, doi.org/ and doi:.
KnownDoiPrefixes == Range(DoiPrefixes) \cup {DxDoiOrg}

\* A raw DOI less its letter case, the blanks around it and its known
\* prefix.
DoiCore(raw) ==
    LET low == Lower(Strip(raw))
        hits == {p \in KnownDoiPrefixes : StartsWith(low, p)}
    IN IF hits = {} THEN low
       ELSE Strip(DropPrefix(low, Len(CHOOSE p \in hits : TRUE)))

\* C15: normalize_doi strips any of the known DOI URL prefixes, matched
\* case-insensitively, lowercases and trims the rest, and returns it exactly
\* when it starts with "10."; every other input (missing, empty, malformed)
\* yields absent, never an error.  Two raw DOIs that differ only in prefix,
\* letter case or surrounding blanks yield the same key.
C15_NormalizeDoi ==
    doi_result # NotCalled =>
        /\ doi_result =
              IF Truthy(doi_cell) /\ StartsWith(DoiCore(doi_cell), <<"1", "0", ".">>)
              THEN DoiCore(doi_cell)
              ELSE None
        /\ \A other \in DoiCells \ {None} :
              (Truthy(doi_cell) /\ DoiCore(other) = DoiCore(doi_cell))
              => normalize_doi(other) = doi_result


-----------------------------------------------------------------------------
(* Properties of the coverage analysis. *)

\* analyze_coverage raised on the merged dataset.
AnalysisRaised == pc = "failed" /\ Len(unified) > 0

\* analyze_coverage returned.
AnalysisReturned == pc \in {"analyzed", "done"}

\* The pairwise comparisons that involve a source.
PairsWith(source) ==
    {k \in 1..Len(Pairs) : Pairs[k][1] = source \/ Pairs[k][2] = source}

\* C16: when the unified dataset has no record from a source,
\* analyze_coverage does not raise, and in every pairwise comparison with
\* that source the counts "only in that source" and "in both" are zero.
C16_EmptySourceCoverage ==
    \A source \in SourceSet :
        (Len(unified) > 0 /\ PapersIn(unified, source) = 0)
            => /\ ~AnalysisRaised
               /\ AnalysisReturned =>
                      \A k \in PairsWith(source) :
                          LET pair == coverage_analysis.pairwise_comparisons[k]
                          IN /\ pair.in_both = 0
                             /\ pair.source1 = source => pair.in_source1_only = 0
                             /\ pair.source2 = source => pair.in_source2_only = 0

\* The partitions a hypothesis reports on, by its name.
ReportsOn(hypothesis) ==
    CASE hypothesis = "NBER source only indexes NBER working papers" ->
             {NberOnly(unified)}
      [] hypothesis = "OpenAlex has more complete DOI metadata than Semantic Scholar" ->
             {OaOnly(unified), SsOnly(unified)}
      [] hypothesis = "Sources have different venue coverage patterns" ->
             {OaOnly(unified), SsOnly(unified)}
      [] hypothesis = "Sources may have different temporal coverage" ->
             {OaOnly(unified), SsOnly(unified)}
      [] OTHER -> {unified}

\* C17: a hypothesis is in the list only if every partition it reports on
\* has records, so that no statistic of a partition without records is
\* emitted.
C17_NoEvidenceOfEmptyPartition ==
    AnalysisReturned =>
        \A k \in 1..Len(coverage_analysis.hypotheses) :
            \A part \in ReportsOn(coverage_analysis.hypotheses[k].hypothesis) :
                Len(part) > 0

-----------------------------------------------------------------------------
(* Properties of process_policy. *)

\* The sources without a file or with a file without rows.
MissingSources ==
    {source \in SourceSet :
        source \notin DOMAIN dataframes \/ Len(dataframes[source]) = 0}

\* C19: whatever sources are absent or empty, the topic does not fail, and
\* once it is processed the counts of the unified dataset for those sources
\* are zero.
C19_MissingSourceNotFatal ==
    /\ pc # "failed"
    /\ pc = "done" =>
           \A source \in MissingSources :
               coverage_analysis.overall_stats["papers_in_" \o source] = 0

-----------------------------------------------------------------------------
(* Properties of main. *)

\* C18: a failure of one topic halts only that topic.  The result of a topic
\* whose processing raised has success false and the exception as its error;
\* the results stand in the order of the topics, one for each; and main
\* leaves its loop only when every topic has its result.
C18_FailureHaltsOnlyTopic ==
    /\ Len(all_results) <= Len(policy_abbrs)
    /\ \A i \in 1..Len(all_results) :
          LET result == all_results[i]
              outcome == TryBlock(policy_abbrs[i], topic_files[policy_abbrs[i]])
          IN /\ result.policy_abbr = policy_abbrs[i]
             /\ outcome.raised =>
                    ~result.success /\ result.error = outcome.exception
             /\ ~result.success => result.error # "None"
    /\ main_pc \in {"done", "crashed"} => Len(all_results) = Len(policy_abbrs)

\* Three topics were processed: the first raised, the second succeeded, the
\* third found no data.
C18_Witness ==
    /\ main_pc = "done"
    /\ Len(all_results) = 3
    /\ TryBlock(policy_abbrs[1], topic_files[policy_abbrs[1]]).raised
    /\ ~all_results[1].success
    /\ all_results[2].success
    /\ all_results[3].error = "No data loaded from any source"

-----------------------------------------------------------------------------
(* Properties of complement_abstracts. *)

\* The row of the working frame at a position is as the row of the caller's
\* frame there, if that one has an abstract: the same abstract, and the same
\* abstract_source, which is the mark of the new column if the caller's
\* frame has no such column.
Preserved(i) ==
    LET before == df_loaded.rows[i]
        after == df_complemented.rows[i]
    IN Truthy(before.abstract) =>
           /\ after.abstract = before.abstract
           /\ after.abstract_source =
                  IF df_loaded.has_source THEN before.abstract_source
                  ELSE InitialSource(before.abstract)

\* C20: complement_abstracts never assigns to the frame of its caller, and
\* from its copy on, whatever the fetches return, every row that had a
\* non-empty abstract on entry keeps its abstract and its abstract_source
\* in the frame that is worked on and returned.
C20_OnlyMissingRowsUpdated ==
    [][/\ df_loaded' = df_loaded
       /\ ca_pc' \notin {"idle", "entered"} =>
              /\ Len(df_complemented'.rows) = Len(df_loaded'.rows)
              /\ \A i \in 1..Len(df_loaded'.rows) : Preserved(i)']_vars

\* complement_abstracts returned a frame of two rows: one had an abstract on
\* entry, the other had none and has one from CrossRef.
C20_Witness ==
    /\ ca_pc = "returned"
    /\ Len(df_loaded.rows) = 2
    /\ Truthy(df_loaded.rows[1].abstract)
    /\ df_loaded.rows[1].abstract_source = SourceCrossRef
    /\ ~Truthy(df_loaded.rows[2].abstract)
    /\ df_complemented.rows[2].abstract_source = SourceCrossRef
    /\ Truthy(df_complemented.rows[2].abstract)

-----------------------------------------------------------------------------
(* Properties of the groups of the registry. *)

\* The registry rows that carry the unified_id of row i.
GroupOf(i) == {j \in 1..Len(registry) : registry[j].unified_id = registry[i].unified_id}

\* Row i stands for a record whose DOI key no other record has.
UniqueDoiKey(i) ==
    /\ Truthy(RowOf(registry[i]).doi_normalized)
    /\ \A j \in 1..Len(registry) :
          j # i => RowOf(registry[j]).doi_normalized # RowOf(registry[i]).doi_normalized

\* C23: a record whose non-absent DOI key is shared by no other record is
\* not consumed by the DOI pass: its match_method is title or none, never
\* doi, and no group with match_method doi has fewer than two members.
C23_UniqueDoiCarried ==
    Matched =>
        \A i \in 1..Len(registry) :
            /\ UniqueDoiKey(i) => registry[i].match_method # "doi"
            /\ registry[i].match_method = "doi" => Cardinality(GroupOf(i)) >= 2

\* The number of tokens of a normalized title: its words between blanks.
Tokens(title) ==
    IF ~Truthy(title) THEN 0
    ELSE Len(SelectSeq(Split(title, <<" ">>), LAMBDA word : word # <<>>))

\* C24: a record whose normalized title has fewer than 3 tokens is excluded
\* from title-pass grouping: it never has match_method title, even when
\* another source has the identical title.
C24_ShortTitleExcluded ==
    Matched =>
        \A i \in 1..Len(registry) :
            Tokens(RowOf(registry[i]).normalized_title) < 3
            => registry[i].match_method # "title"

\* Rows i and j were placed in the same group by create_match_registry: the
\* DOI pass put them under one DOI key, or the title pass under one title
\* key that rows of two sources share.
SameDoiGroup(i, j) ==
    /\ registry[i].match_method = "doi"
    /\ registry[j].match_method = "doi"
    /\ RowOf(registry[i]).doi_normalized = RowOf(registry[j]).doi_normalized

SameTitleGroup(i, j) ==
    /\ registry[i].match_method = "title"
    /\ registry[j].match_method = "title"
    /\ RowOf(registry[i]).normalized_title = RowOf(registry[j]).normalized_title

\* C25: two registry rows carry the same unified_id if and only if they
\* were placed in the same group, every singleton has an id no other row
\* has, and the ids in use are exactly 0..G-1 for the G groups, whatever the
\* order of the sources and of their rows.
C25_UnifiedIds ==
    pc = "matched" =>
        \A order \in SourceOrders, dfs \in Shuffles(dataframes) :
            LET reg == create_match_registry(order, dfs)
                N == Len(reg)
                row(i) == Loc(dfs[reg[i].source], reg[i].source_index)
                same(i, j) ==
                    \/ i = j
                    \/ /\ reg[i].match_method = "doi"
                       /\ reg[j].match_method = "doi"
                       /\ row(i).doi_normalized = row(j).doi_normalized
                    \/ /\ reg[i].match_method = "title"
                       /\ reg[j].match_method = "title"
                       /\ row(i).normalized_title = row(j).normalized_title
            IN /\ \A i, j \in 1..N :
                     (reg[i].unified_id = reg[j].unified_id) <=> same(i, j)
               /\ \A i \in 1..N :
                     reg[i].match_method = "none"
                     => \A j \in 1..N : j # i => reg[j].unified_id # reg[i].unified_id
               /\ {reg[i].unified_id : i \in 1..N} = 0..(Cardinality(Partition(reg)) - 1)

\* A registry with a DOI group of two, a singleton, and ids 0 and 1.
C25_Witness ==
    /\ pc = "matched"
    /\ Len(registry) = 3
    /\ {registry[i].unified_id : i \in 1..Len(registry)} = {0, 1}
    /\ \E i, j, k \in 1..Len(registry) :
          /\ i # j
          /\ SameDoiGroup(i, j)
          /\ registry[k].match_method = "none"

\* C26: every group with match_method none has exactly one member; every
\* group with match_method title has members of at least two sources, all
\* with one title key and all without a DOI key; all members of a group
\* with match_method doi have one DOI key; and all rows of one group carry
\* one match_method.
C26_GroupShapes ==
    Matched =>
        \A i \in 1..Len(registry) :
            /\ registry[i].match_method = "none" => GroupOf(i) = {i}
            /\ registry[i].match_method = "title"
               => /\ Cardinality({registry[j].source : j \in GroupOf(i)}) >= 2
                  /\ \A j \in GroupOf(i) :
                        /\ RowOf(registry[j]).normalized_title
                               = RowOf(registry[i]).normalized_title
                        /\ RowOf(registry[j]).doi_normalized = None
            /\ registry[i].match_method = "doi"
               => \A j \in GroupOf(i) :
                     /\ Truthy(RowOf(registry[j]).doi_normalized)
                     /\ RowOf(registry[j]).doi_normalized
                            = RowOf(registry[i]).doi_normalized
            /\ \A j \in GroupOf(i) : registry[j].match_method = registry[i].match_method

\* A registry that holds a title group of two sources beside a record that
\* has the same title and a DOI key, which went to a DOI group.
C26_Witness ==
    /\ pc = "matched"
    /\ \E i, j, k \in 1..Len(registry) :
          /\ SameTitleGroup(i, j)
          /\ registry[i].source # registry[j].source
          /\ registry[k].match_method = "doi"
          /\ RowOf(registry[k]).normalized_title = RowOf(registry[i]).normalized_title

-----------------------------------------------------------------------------
(* Properties of the counts of the coverage analysis. *)

\* C27: for each source pair (A, B), "A only" + "both" is the number of
\* unified records in A and "B only" + "both" the number in B, and
\* papers_in_exactly_one + papers_in_exactly_two + papers_in_all_three is
\* total_unified_papers.
C27_CountsAddUp ==
    AnalysisReturned =>
        LET stats == coverage_analysis.overall_stats
        IN /\ \A k \in 1..Len(Pairs) :
                 LET pair == coverage_analysis.pairwise_comparisons[k]
                 IN /\ pair.in_source1_only + pair.in_both = PapersIn(unified, pair.source1)
                    /\ pair.in_source2_only + pair.in_both = PapersIn(unified, pair.source2)
           /\ stats.papers_in_exactly_one + stats.papers_in_exactly_two
                  + stats.papers_in_all_three = stats.total_unified_papers
           /\ stats.total_unified_papers = Len(unified)

\* An analysis of a dataset with a record of two sources and a record of one.
C27_Witness ==
    /\ AnalysisReturned
    /\ coverage_analysis.overall_stats.papers_in_exactly_one > 0
    /\ coverage_analysis.overall_stats.papers_in_exactly_two > 0
    /\ \E k \in 1..Len(Pairs) :
          /\ coverage_analysis.pairwise_comparisons[k].in_both > 0
          /\ coverage_analysis.pairwise_comparisons[k].in_source1_only > 0

\* C28: generate_hypotheses completes without raising when the
\* openalex-only and the semantic-scholar-only partitions both have records,
\* whatever their publication years are: the step after merging never fails
\* the topic with the error of a missing year.
C28_HypothesesComplete ==
    (Len(OaOnly(unified)) > 0 /\ Len(SsOnly(unified)) > 0)
        => ~(pc = "failed" /\ error = "ValueError: cannot convert float NaN to integer")

-----------------------------------------------------------------------------
(* Properties of the end of main. *)

\* C29: main always reaches the end: after the last topic has been
\* processed, generate_summary_report returns and the final counts are
\* printed, whatever the outcomes of the topics, so that main never stops
\* with an exception of the summary report.
C29_MainReachesEnd ==
    (Len(policy_abbrs) > 0 /\ Len(all_results) = Len(policy_abbrs))
        => main_pc \in {"loop", "done"}

-----------------------------------------------------------------------------
(* Properties of search_semantic_scholar. *)

\* C22: search_semantic_scholar issues at most max_retries requests for any
\* one page offset, whatever the server answers, a 429 to every request
\* included, and never returns more than max_results items.
C22_BoundedRequests ==
    /\ requests_sent <= max_retries
    /\ search_pc = "returned" => returned <= max_results

-----------------------------------------------------------------------------
(* Properties of the tiers of complement_abstracts. *)

\* A tier of this call has assigned the abstract of row i already: the row
\* is no longer the one of the copy made on entry.
SetByTier(i) ==
    /\ ca_pc \in {"crossref", "oa_url", "pdf", "selenium", "ssrn"}
    /\ df_complemented.rows[i] # CopyWithSource(df_loaded).rows[i]

\* C21: the tiers run in the order CrossRef, Open Access URL, PDF,
\* Selenium, SSRN, and what one tier has set no later tier sets again: a
\* step assigns the abstract and the abstract_source of a row only if no
\* tier has assigned them before, so that each row's abstract is set at most
\* once and abstract_source names the first tier that succeeded for it.
C21_AbstractSetOnce ==
    [][\A i \in 1..Len(df_complemented.rows) :
          (SetByTier(i) /\ Len(df_complemented'.rows) = Len(df_complemented.rows))
              => df_complemented'.rows[i] = df_complemented.rows[i]]_vars

-----------------------------------------------------------------------------
(* Properties of process_policy of the abstract-complement pipeline. *)

\* C30: when no search terms are available for a policy, or it has no
\* papers, the relevance filter keeps every paper, and process_policy does
\* not end by an exception after complement_abstracts has returned: it
\* saves the complemented and the filtered outputs and returns its metadata.
C30_NoTermsKeepsAll ==
    (/\ ca_pc = "returned"
     /\ Len(search_terms) = 0 \/ Len(df_complemented.rows) = 0)
        => /\ cp_pc # "raised"
           /\ cp_pc \in {"filtered", "returned"} => df_filtered = df_complemented
           /\ cp_pc = "returned" => saved_files = OutputFiles

====
